---- MODULE Spec2Model ----
(***************************************************************************)
(* Model of RestartOutput (src/src/outputs/restart.cpp): every MPI rank    *)
(* runs LoadOutputData and then WriteOutputFile; rank 0 writes the header  *)
(* sequentially, every rank writes its MeshBlocks at explicit offsets.     *)
(* Reals of the program (time, last_time, dt) are counted in integer time  *)
(* quanta; file offsets and sizes are exact byte counts.                   *)
(***************************************************************************)
EXTENDS Integers, Sequences, FiniteSets, TLC

\* ------------------------------------------------------------------ bounds
MaxDumps == 2      \* restart dumps per run
MaxEvolve == 2     \* changes of the modules' buffers explored
MaxShort == 1      \* short writes the file system produces per run

\* ------------------------------------------------- sizes of the written types
sizeofChar == 1
sizeofInt == 4
sizeofReal == 8
sizeofFloat == 4
sizeofRegionSize == 72
sizeofRegionIndcs == 76
sizeofLogicalLocation == 16
sizeofIOWrapperSizeT == 8
sizeofRNG_State == 296
nforce == 3
numberBufSize == 6
padWidth == 5

\* ------------------------------------------------------------ run inputs
Modules == {"hydro", "mhd", "rad", "turb"}

\* the module pointers that are not nullptr; the turbulence driver forces a fluid
ActiveSets == {s \in SUBSET Modules : s # {} /\ ("turb" \in s => ("hydro" \in s \/ "mhd" \in s))}

\* The runs explored. indcs: pm->mb_indcs with the component counts of the modules;
\* op: out_params at start. A new 1D run (no output written yet, last_time
\* negative) and a restarted 3D run that continues at a late file number.
Runs ==
  { [indcs |-> [nx1 |-> 4, nx2 |-> 1, nx3 |-> 1, ng |-> 2, nhydro |-> 5, nmhd |-> 5, nrad |-> 2],
     op |-> [file_number |-> 0, last_time |-> -1, dt |-> 2]],
    [indcs |-> [nx1 |-> 2, nx2 |-> 2, nx3 |-> 2, ng |-> 1, nhydro |-> 6, nmhd |-> 7, nrad |-> 3],
     op |-> [file_number |-> 99999, last_time |-> 4, dt |-> 2]] }

\* pm->nmb_eachrank as a function of the rank, from the list of its block counts
PerRank(t) == [r \in 0 .. Len(t) - 1 |-> t[r + 1]]

\* the distributions of MeshBlocks over ranks explored: equal and unequal counts,
\* the larger count on the first, the last or the middle rank
ExampleCounts == PerRank(<<3, 3, 5>>)
BlockCounts == {PerRank(<<2, 2>>), PerRank(<<2, 1>>), PerRank(<<1, 3>>), PerRank(<<1, 2, 1>>)}

VARIABLES
  nmb_eachrank,   \* pm->nmb_eachrank
  indcs,          \* pm->mb_indcs and component counts
  active,         \* modules whose pointer is not nullptr
  time,           \* pm->time, per rank
  out_params,     \* per rank: file_number, last_time, dt
  pin,            \* per rank: the <output> block of ParameterInput
  fname,          \* per rank: the file name built
  sbuf,           \* per rank: the dumped parameter text
  noutmbs_min, noutmbs_max,
  data_size, myoffset,
  pos,            \* per rank: header index hdr, loop lp, block m, array f
  pc,             \* per rank: place in the code
  wlog,           \* per rank: the writes issued to the current file, in order
  msg,            \* per rank: text of the fatal error, "" when none
  nshort,         \* short writes so far
  ndump,          \* per rank: dumps started
  live,           \* per rank and array: content of the module's own buffer (u0, b0, i0, force)
  outarray,       \* per rank and array: content of outarray_* / outfield, NoData before realloc
  nevolve         \* changes of the modules' buffers so far

\* the problem generators (ProblemGenerator::UserProblem of z4c_one_puncture and of
\* gr_torus)
VARIABLES
  problem,        \* the problem generator compiled in (-D PROBLEM=...)
  ppc,            \* place in UserProblem
  pmbp,           \* MeshBlockPack: pz4c, phydro, pmhd present; pcoord->is_general_relativistic
  restart,        \* argument of UserProblem
  pin_problem,    \* <problem> block of the input: fm_torus, chakrabarti_torus, sane, mad
  done,           \* initial-data routines called and fields written so far
  user_bcs_func, user_hist_func,   \* functions enrolled, "" when none
  spherical_grids,                 \* number of SphericalGrid instances pushed back
  S,              \* GaussLegendreGrid: alive, pointwise_radius, surface_jacobian
  H,              \* surface null expansion on S
  H_integrated,   \* S->Integrate(H)
  H_spectral,     \* coefficients of H used by the update
  r_np1,          \* new radius computed by the update
  itr,            \* loop counter of the horizon finder
  nupdate,        \* radius updates applied by the horizon finder
  cout            \* kinds of messages printed

pgen_vars == <<problem, ppc, pmbp, restart, pin_problem, done, user_bcs_func,
               user_hist_func, spherical_grids, S, H, H_integrated, H_spectral,
               r_np1, itr, nupdate, cout>>

\* the parts of the program outside the restart output
VARIABLES
  triangles,      \* RadiationFEMN::triangles: rows of three vertex indices
  edge_triangles, \* RadiationFEMN::edge_triangles: rows of three values
  va, vb,         \* the arguments a and b of FindTriangles
  is_edge,        \* the bool& argument of FindTriangles
  ti,             \* loop variable i of FindTriangles
  index,          \* row of edge_triangles the next triangle found is stored in
  tpc,            \* place in FindTriangles
  ncalls          \* calls of FindTriangles made

tri_vars == <<triangles, edge_triangles, va, vb, is_edge, ti, index, tpc, ncalls>>

VARIABLES
  set_initial_conditions, \* the global flag of linear_wave
  pmesh,                  \* pmesh_->nx2gt1, nx3gt1
  tlim,                   \* pmy_driver_->tlim
  phydro_regs,            \* pmbp->phydro->u0, u1 of the linear wave
  pmhd_regs               \* pmbp->pmhd->u0, u1, b0, b1 of the linear wave

wave_vars == <<set_initial_conditions, pmesh, tlim, phydro_regs, pmhd_regs>>

VARIABLES
  fcall,    \* the function called last and its arguments
  fresult   \* what the call gave

fn_vars == <<fcall, fresult>>

VARIABLES
  pdata,    \* HistoryData: nhist, label[], hdata[]
  hmods,    \* pmbp->phydro, pmbp->pmhd present, for TorusHistory
  nradii,   \* grids.size()
  is_mhd,   \* local of TorusHistory
  hg,       \* loop variable g of TorusHistory
  hn,       \* loop variable n of TorusHistory
  hpc,      \* place in TorusHistory
  hoob      \* an index outside label[] or hdata[] has been used

hist_vars == <<pdata, hmods, nradii, is_mhd, hg, hn, hpc, hoob>>

VARIABLES
  w0,       \* primitive variables of the block, w0[n][cell]
  u0,       \* conserved variables of the block, u0[cell]
  mb_bcs,   \* pmb->mb_bcs: the boundary flag of each face of the block
  bdir,     \* the direction NoInflowTorus is at
  bpc,      \* place in NoInflowTorus
  copied,   \* the cells written by the noinflow kernels in this call
  bcalls    \* calls of NoInflowTorus so far

bc_vars == <<w0, u0, mb_bcs, bdir, bpc, copied, bcalls>>

other_vars == <<pgen_vars, tri_vars, wave_vars, fn_vars, hist_vars, bc_vars>>

\* the restart output
restart_vars == <<nmb_eachrank, indcs, active, time, out_params, pin, fname, sbuf,
                  noutmbs_min, noutmbs_max, data_size, myoffset, pos, pc, wlog, msg,
                  nshort, ndump, live, outarray, nevolve>>

vars == <<restart_vars, other_vars>>

\* what the restart output reads and never changes
config == <<nmb_eachrank, indcs, active, live, nevolve, other_vars>>

Ranks == DOMAIN nmb_eachrank
nranks == Cardinality(Ranks)
nmb_thisrank(r) == nmb_eachrank[r]

RECURSIVE SumUpTo(_, _)
SumUpTo(f, n) == IF n = 0 THEN 0 ELSE f[n - 1] + SumUpTo(f, n - 1)

\* Mesh: starting global id of the MeshBlocks of each rank, and the total
gids_eachrank(r) == SumUpTo(nmb_eachrank, r)
nmb_total == SumUpTo(nmb_eachrank, nranks)

Max(a, b) == IF a > b THEN a ELSE b
Min(a, b) == IF a < b THEN a ELSE b

\* --------------------------------------------------------- array extents
nout1 == indcs.nx1 + 2 * indcs.ng
nout2 == IF indcs.nx2 > 1 THEN indcs.nx2 + 2 * indcs.ng ELSE 1
nout3 == IF indcs.nx3 > 1 THEN indcs.nx3 + 2 * indcs.ng ELSE 1

\* component counts, 0 for a module that is absent
nhydro == IF "hydro" \in active THEN indcs.nhydro ELSE 0
nmhd == IF "mhd" \in active THEN indcs.nmhd ELSE 0
nrad == IF "rad" \in active THEN indcs.nrad ELSE 0

\* LoadOutputData: number of Reals in the subview of one MeshBlock of an outarray
SubviewSize(arr) ==
  CASE arr = "hyd"   -> nhydro * nout3 * nout2 * nout1
    [] arr = "mhd"   -> nmhd * nout3 * nout2 * nout1
    [] arr = "x1f"   -> nout3 * nout2 * (nout1 + 1)
    [] arr = "x2f"   -> nout3 * (nout2 + 1) * nout1
    [] arr = "x3f"   -> (nout3 + 1) * nout2 * nout1
    [] arr = "rad"   -> nrad * nout3 * nout2 * nout1
    [] arr = "force" -> nforce * nout3 * nout2 * nout1

RECURSIVE MinOver(_, _, _)
MinOver(f, n, acc) == IF n = 0 THEN acc ELSE MinOver(f, n - 1, Min(acc, f[n - 1]))
RECURSIVE MaxOver(_, _, _)
MaxOver(f, n, acc) == IF n = 0 THEN acc ELSE MaxOver(f, n - 1, Max(acc, f[n - 1]))

\* LoadOutputData: min/max number of MeshBlocks across all ranks
ComputeNoutmbsMin == MinOver(nmb_eachrank, nranks, nmb_eachrank[0])
ComputeNoutmbsMax == MaxOver(nmb_eachrank, nranks, nmb_eachrank[0])

\* ------------------------------------------------------------- file name
DigitChars == <<"0", "1", "2", "3", "4", "5", "6", "7", "8", "9">>

RECURSIVE Digits(_)
Digits(n) == IF n < 10 THEN <<DigitChars[n + 1]>>
             ELSE Append(Digits(n \div 10), DigitChars[(n % 10) + 1])

RECURSIVE ZeroPad(_, _)
ZeroPad(s, w) == IF Len(s) >= w THEN s ELSE ZeroPad(<<"0">> \o s, w)

\* what "%05d" produces for a file number n >= 0
Format05d(n) == ZeroPad(Digits(n), padWidth)

\* std::snprintf(number, sizeof(number), "%05d", n): at most sizeof(number)-1 chars
Snprintf05d(n) ==
  LET full == Format05d(n)
  IN  SubSeq(full, 1, Min(Len(full), numberBufSize - 1))

file_basename == "base"

\* fname = "rst/" + file_basename + "." + number + ".rst"
BuildFname(n) == <<"rst/", file_basename, ".">> \o Snprintf05d(n) \o <<".rst">>

\* ----------------------------------------------------- parameter text
\* pin->ParameterDump: the text holds the <output> block's file_number and
\* last_time; its length grows with the digits of both
ParameterDump(p) ==
  [file_number |-> p.file_number, last_time |-> p.last_time,
   size |-> 40 + Len(Digits(p.file_number))
               + Len(Digits(IF p.last_time < 0 THEN 0 - p.last_time ELSE p.last_time))]

\* ------------------------------------------------------------ write log
NoText == [file_number |-> -1, last_time |-> -1, size |-> 0]

\* the arrays of the restart output, and the content of one that is not allocated
\* or of a write that carries no field data
Arrays == {"hyd", "mhd", "x1f", "x2f", "x3f", "rad", "force"}
NoData == -1

\* one write call: section or array, MeshBlock (-1 for the header), byte offset,
\* bytes requested and written, collective or not, parameter text and field
\* content carried
WriteRec(sec, blk, off, req, wrote, coll, text, data) ==
  [sec |-> sec, blk |-> blk, off |-> off, req |-> req, wrote |-> wrote,
   coll |-> coll, text |-> text, data |-> data]

HeaderSecs == {"params", "mesh", "lloc_eachmb", "cost_eachmb", "data_size", "rstate"}

RECURSIVE SumWrote(_)
SumWrote(s) == IF s = <<>> THEN 0 ELSE s[1].wrote + SumWrote(Tail(s))

\* IOWrapper::Write_bytes writes at the file pointer, which every write advances
FilePointer(r) == SumWrote(wlog[r])

\* what a write of n units can return: all of them, or fewer while the file
\* system still produces short writes
Outcomes(n) == {n} \cup (IF nshort < MaxShort /\ n > 0 THEN {n - 1} ELSE {})

\* ------------------------------------------------------------- the header
\* "output Mesh information": the eight Write_bytes calls of restart.cpp 165-172
\* (nmb_total, root_level, mesh_size, mesh_indcs, mb_indcs, time, dt, ncycle)
MeshScalars == <<sizeofInt, sizeofInt, sizeofRegionSize, sizeofRegionIndcs,
                 sizeofRegionIndcs, sizeofReal, sizeofReal, sizeofInt>>

RECURSIVE SumSeq(_)
SumSeq(s) == IF s = <<>> THEN 0 ELSE s[1] + SumSeq(Tail(s))

\* STEP 1 and STEP 2: what rank 0 writes with Write_bytes, in order, with sizes;
\* the mesh scalars are written back to back and make one section
Step12Sections(r) ==
  << [sec |-> "params",      size |-> sizeofChar * sbuf[r].size],
     [sec |-> "mesh",        size |-> SumSeq(MeshScalars)],
     [sec |-> "lloc_eachmb", size |-> nmb_total * sizeofLogicalLocation],
     [sec |-> "cost_eachmb", size |-> nmb_total * sizeofFloat] >>

\* variant: the RNG state written whether or not there is a turbulence driver
Step3Sections_AlwaysRng ==
  << [sec |-> "data_size", size |-> sizeofIOWrapperSizeT],
     [sec |-> "rstate", size |-> sizeofRNG_State] >>

\* STEP 3, rank 0: the payload size and, with a turbulence driver, the RNG state
Step3Sections ==
  << [sec |-> "data_size", size |-> sizeofIOWrapperSizeT] >>
  \o (IF "turb" \in active THEN << [sec |-> "rstate", size |-> sizeofRNG_State] >> ELSE <<>>)

\* variant: the size of all MeshBlocks "to be written by this rank"
ComputeDataSize_ThisRank(r) ==
  nmb_thisrank(r) *
  ( (IF "hydro" \in active THEN nout1 * nout2 * nout3 * nhydro * sizeofReal ELSE 0)
  + (IF "mhd" \in active
       THEN nout1 * nout2 * nout3 * nmhd * sizeofReal
          + (nout1 + 1) * nout2 * nout3 * sizeofReal
          + nout1 * (nout2 + 1) * nout3 * sizeofReal
          + nout1 * nout2 * (nout3 + 1) * sizeofReal
       ELSE 0)
  + (IF "rad" \in active THEN nout1 * nout2 * nout3 * nrad * sizeofReal ELSE 0)
  + (IF "turb" \in active THEN nout1 * nout2 * nout3 * nforce * sizeofReal ELSE 0) )

\* variant: the x1-face field counted with nout1 instead of nout1+1 cells
ComputeDataSize_ShortFace(r) ==
    (IF "hydro" \in active THEN nout1 * nout2 * nout3 * nhydro * sizeofReal ELSE 0)
  + (IF "mhd" \in active
       THEN nout1 * nout2 * nout3 * nmhd * sizeofReal
          + nout1 * nout2 * nout3 * sizeofReal
          + nout1 * (nout2 + 1) * nout3 * sizeofReal
          + nout1 * nout2 * (nout3 + 1) * sizeofReal
       ELSE 0)
  + (IF "rad" \in active THEN nout1 * nout2 * nout3 * nrad * sizeofReal ELSE 0)
  + (IF "turb" \in active THEN nout1 * nout2 * nout3 * nforce * sizeofReal ELSE 0)

\* total size of all variables of one MeshBlock (restart.cpp 188-203)
ComputeDataSize(r) ==
    (IF "hydro" \in active THEN nout1 * nout2 * nout3 * nhydro * sizeofReal ELSE 0)
  + (IF "mhd" \in active
       THEN nout1 * nout2 * nout3 * nmhd * sizeofReal
          + (nout1 + 1) * nout2 * nout3 * sizeofReal
          + nout1 * (nout2 + 1) * nout3 * sizeofReal
          + nout1 * nout2 * (nout3 + 1) * sizeofReal
       ELSE 0)
  + (IF "rad" \in active THEN nout1 * nout2 * nout3 * nrad * sizeofReal ELSE 0)
  + (IF "turb" \in active THEN nout1 * nout2 * nout3 * nforce * sizeofReal ELSE 0)

\* size of data written in Steps 1-2 (restart.cpp 213-215)
step1size(r) == sbuf[r].size * sizeofChar + 3 * sizeofInt + 2 * sizeofReal
                + sizeofRegionSize + 2 * sizeofRegionIndcs
step2size(r) == nmb_total * (sizeofLogicalLocation + sizeofFloat)

\* all Write_bytes calls of rank 0, in program order
HeaderSections(r) == Step12Sections(r) \o Step3Sections

\* variant: the rank number in place of the rank's first global MeshBlock id
ComputeMyOffset_ByRank(r, ds) ==
  step1size(r) + step2size(r) + sizeofIOWrapperSizeT
  + ds * r
  + (IF "turb" \in active THEN sizeofRNG_State ELSE 0)

\* offset of the first payload byte of rank r, ds its data_size (restart.cpp 218-220)
ComputeMyOffset(r, ds) ==
  step1size(r) + step2size(r) + sizeofIOWrapperSizeT
  + ds * gids_eachrank(r)
  + (IF "turb" \in active THEN sizeofRNG_State ELSE 0)

\* ------------------------------------------------------------ the payload
\* the five loops over MeshBlocks, the module each needs, the arrays each writes
LoopModule == <<"hydro", "mhd", "mhd", "rad", "turb">>
\* variant: the three face fields written x3f, x2f, x1f
LoopArrays_FaceReversed ==
  << <<"hyd">>, <<"mhd">>, <<"x3f", "x2f", "x1f">>, <<"rad">>, <<"force">> >>
LoopArrays == << <<"hyd">>, <<"mhd">>, <<"x1f", "x2f", "x3f">>, <<"rad">>, <<"force">> >>
NLoops == Len(LoopModule)

\* the loops that run and the arrays they write, for the modules present
ActiveLoops == {lp \in 1 .. NLoops : LoopModule[lp] \in active}
ActiveArrays == UNION {{LoopArrays[lp][i] : i \in 1 .. Len(LoopArrays[lp])} : lp \in ActiveLoops}

\* variant: the write reads the module's own buffer
Subview_Live(r, a) == live[r][a]
\* mbptr.data(): the content of the writer's array handed to the write call
Subview(r, a) == outarray[r][a]

\* text of the fatal error of a failed write of an array
FatalText(arr) ==
  IF arr \in {"x1f", "x2f", "x3f"}
    THEN arr \o "-data not written correctly to restart file"
    ELSE "cell-centered data not written correctly to restart file"

StartPos == [hdr |-> 1, lp |-> 1, m |-> 0, f |-> 1]

\* the tests inside the loops over m (restart.cpp 226-242 and its four copies)
InLoop(r, m) == m < noutmbs_max[r]
\* variant: the collective branch taken while the rank itself has a MeshBlock
IsCollective_OwnCount(r, m) == m < nmb_thisrank(r)
IsCollective(r, m) == m < noutmbs_min[r]
\* variant: the last MeshBlock of the rank left out
IsIndependent_OffByOne(r, m) == m < nmb_thisrank(r) - 1
IsIndependent(r, m) == m < nmb_thisrank(r)

\* Control flow of the five loops: from position p, the position of the next write
\* of rank r (lp > NLoops when there is none). A loop of an absent module is
\* skipped, a loop ends when m reaches noutmbs_max, and an iteration that is
\* neither collective nor independent writes nothing.
RECURSIVE NextWrite(_, _)
NextWrite(r, p) ==
  IF p.lp > NLoops THEN p
  ELSE IF LoopModule[p.lp] \notin active \/ ~InLoop(r, p.m)
    THEN NextWrite(r, [p EXCEPT !.lp = p.lp + 1, !.m = 0, !.f = 1])
  ELSE IF IsCollective(r, p.m) \/ IsIndependent(r, p.m) THEN p
  ELSE NextWrite(r, [p EXCEPT !.m = p.m + 1, !.f = 1])

\* position after the write of array f of MeshBlock m
AfterArray(r, p) ==
  IF p.f < Len(LoopArrays[p.lp]) THEN [p EXCEPT !.f = p.f + 1]
  ELSE NextWrite(r, [p EXCEPT !.f = 1, !.m = p.m + 1])

\* ------------------------------------------------------------------ Init

\* no problem generator runs
NoField == [nan |-> FALSE, int |-> 0, coef |-> <<>>]
NoGrid == [alive |-> FALSE, pointwise_radius |-> <<>>, surface_jacobian |-> <<>>]
PgenIdle ==
  /\ problem = "none" /\ ppc = "idle"
  /\ pmbp = [pz4c |-> FALSE, phydro |-> FALSE, pmhd |-> FALSE,
             is_general_relativistic |-> FALSE]
  /\ restart = FALSE
  /\ pin_problem = [fm_torus |-> FALSE, chakrabarti_torus |-> FALSE,
                    sane |-> FALSE, mad |-> FALSE]
  /\ done = {} /\ user_bcs_func = "" /\ user_hist_func = "" /\ spherical_grids = 0
  /\ S = NoGrid /\ H = NoField /\ H_integrated = [nan |-> FALSE, v |-> 0]
  /\ H_spectral = <<>> /\ r_np1 = <<>> /\ itr = 0 /\ nupdate = 0 /\ cout = {}

\* no RadiationFEMN object
TriIdle ==
  /\ triangles = <<>> /\ edge_triangles = <<>>
  /\ va = 0 /\ vb = 0 /\ is_edge = FALSE
  /\ ti = 0 /\ index = 0
  /\ tpc = "none" /\ ncalls = 0

\* no linear wave
WaveIdle ==
  /\ set_initial_conditions = TRUE
  /\ pmesh = [nx2gt1 |-> FALSE, nx3gt1 |-> FALSE]
  /\ tlim = 0
  /\ phydro_regs = <<>> /\ pmhd_regs = <<>>

\* no function called
FnIdle == fcall = [fn |-> "none"] /\ fresult = [exited |-> FALSE, value |-> 0]

\* no call of TorusHistory
HistIdle ==
  /\ pdata = [nhist |-> 0, label |-> <<>>, hdata |-> <<>>]
  /\ hmods = [phydro |-> FALSE, pmhd |-> FALSE]
  /\ nradii = 0 /\ is_mhd = FALSE /\ hg = 0 /\ hn = 0
  /\ hpc = "none" /\ hoob = FALSE

\* no call of NoInflowTorus
BcIdle ==
  /\ w0 = <<>> /\ u0 = <<>> /\ mb_bcs = <<>>
  /\ bdir = 0 /\ bpc = "none" /\ copied = {} /\ bcalls = 0

OthersIdle == PgenIdle /\ TriIdle /\ WaveIdle /\ FnIdle /\ HistIdle /\ BcIdle

\* state after construction for block counts `counts`, modules `act`, run `run`
InitWith(counts, act, run) ==
  /\ nmb_eachrank = counts
  /\ active = act
  /\ indcs = run.indcs
  /\ out_params = [r \in DOMAIN counts |-> run.op]
  /\ pin = [r \in DOMAIN counts |->
             [file_number |-> run.op.file_number, last_time |-> run.op.last_time]]
  /\ time = [r \in DOMAIN counts |-> 5]
  /\ fname = [r \in DOMAIN counts |-> <<>>]
  /\ sbuf = [r \in DOMAIN counts |-> NoText]
  /\ noutmbs_min = [r \in DOMAIN counts |-> 0]
  /\ noutmbs_max = [r \in DOMAIN counts |-> 0]
  /\ data_size = [r \in DOMAIN counts |-> 0]
  /\ myoffset = [r \in DOMAIN counts |-> 0]
  /\ pos = [r \in DOMAIN counts |-> StartPos]
  /\ pc = [r \in DOMAIN counts |-> "start"]
  /\ wlog = [r \in DOMAIN counts |-> <<>>]
  /\ msg = [r \in DOMAIN counts |-> ""]
  /\ nshort = 0
  /\ ndump = [r \in DOMAIN counts |-> 1]
  /\ live = [r \in DOMAIN counts |-> [a \in Arrays |-> 0]]
  /\ outarray = [r \in DOMAIN counts |-> [a \in Arrays |-> NoData]]
  /\ nevolve = 0

\* every explored distribution with every module set and run, and the hydro run
\* of three ranks with 3, 3 and 5 MeshBlocks
Init ==
  \E counts \in BlockCounts \cup {ExampleCounts}, act \in ActiveSets, run \in Runs :
    /\ counts = ExampleCounts => (act = {"hydro"} /\ run.op.file_number = 0)
    /\ InitWith(counts, act, run)
    /\ OthersIdle

\* --------------------------------------------------------------- actions
\* Kokkos::realloc and Kokkos::deep_copy of LoadOutputData (restart.cpp 69-88): the
\* arrays of the modules present take the content of the modules' buffers
DeepCopy(r) == [a \in Arrays |-> IF a \in ActiveArrays THEN live[r][a] ELSE outarray[r][a]]

\* RestartOutput::LoadOutputData: the copies, then the min/max over nmb_eachrank
LoadOutputData(r) ==
  /\ pc[r] = "start"
  /\ outarray' = [outarray EXCEPT ![r] = DeepCopy(r)]
  /\ noutmbs_min' = [noutmbs_min EXCEPT ![r] = ComputeNoutmbsMin]
  /\ noutmbs_max' = [noutmbs_max EXCEPT ![r] = ComputeNoutmbsMax]
  /\ pc' = [pc EXCEPT ![r] = "loaded"]
  /\ UNCHANGED <<config, time, out_params, pin, fname, sbuf, data_size, myoffset,
                 pos, wlog, msg, nshort, ndump>>

\* out_params after "increment counters now" (restart.cpp 139-144)
IncrementCounters(op, t) ==
  [op EXCEPT !.file_number = op.file_number + 1,
             !.last_time = IF op.last_time < 0 THEN t ELSE op.last_time + op.dt]

\* variant: the parameters dumped before the counters are stored in them
BeginWrite_DumpFirst(r) ==
  /\ pc[r] = "loaded"
  /\ LET op == IncrementCounters(out_params[r], time[r])
         newpin == [file_number |-> op.file_number, last_time |-> op.last_time]
     IN  /\ fname' = [fname EXCEPT ![r] = BuildFname(out_params[r].file_number)]
         /\ out_params' = [out_params EXCEPT ![r] = op]
         /\ pin' = [pin EXCEPT ![r] = newpin]
         /\ sbuf' = [sbuf EXCEPT ![r] = ParameterDump(pin[r])]
  /\ wlog' = [wlog EXCEPT ![r] = <<>>]
  /\ pos' = [pos EXCEPT ![r] = StartPos]
  /\ pc' = [pc EXCEPT ![r] = "opening"]
  /\ UNCHANGED <<config, time, noutmbs_min, noutmbs_max, outarray, data_size, myoffset,
                 msg, nshort, ndump>>

\* WriteOutputFile up to resfile.Open (restart.cpp 126-159): the name from the
\* current number, then the counters, pin->SetInteger/SetReal, ParameterDump, and
\* the rank enters the collective open of the new file
BeginWrite(r) ==
  /\ pc[r] = "loaded"
  /\ LET op == IncrementCounters(out_params[r], time[r])
         newpin == [file_number |-> op.file_number, last_time |-> op.last_time]
     IN  /\ fname' = [fname EXCEPT ![r] = BuildFname(out_params[r].file_number)]
         /\ out_params' = [out_params EXCEPT ![r] = op]
         /\ pin' = [pin EXCEPT ![r] = newpin]
         /\ sbuf' = [sbuf EXCEPT ![r] = ParameterDump(newpin)]
  /\ wlog' = [wlog EXCEPT ![r] = <<>>]
  /\ pos' = [pos EXCEPT ![r] = StartPos]
  /\ pc' = [pc EXCEPT ![r] = "opening"]
  /\ UNCHANGED <<config, time, noutmbs_min, noutmbs_max, outarray, data_size, myoffset,
                 msg, nshort, ndump>>

\* rank q has entered the open of dump d
Opened(q, d) == ndump[q] > d \/ (ndump[q] = d /\ pc[q] \notin {"start", "loaded"})

\* the collective open returns once every rank has entered it
OpenReturn(r) ==
  /\ pc[r] = "opening"
  /\ \A q \in Ranks : Opened(q, ndump[r])
  /\ pc' = [pc EXCEPT ![r] = "header"]
  /\ UNCHANGED <<config, time, out_params, pin, fname, sbuf, noutmbs_min, noutmbs_max, outarray,
                 data_size, myoffset, pos, wlog, msg, nshort, ndump>>

\* one resfile.Write_bytes of rank 0 (restart.cpp 160-181, 205-210); the value
\* it returns is not looked at
WriteHeader(r) ==
  /\ pc[r] = "header"
  /\ r = 0
  /\ pos[r].hdr <= Len(HeaderSections(r))
  /\ LET h == HeaderSections(r)[pos[r].hdr]
     IN  \E got \in Outcomes(h.size) :
           /\ wlog' = [wlog EXCEPT ![r] = Append(@,
                 WriteRec(h.sec, -1, FilePointer(r), h.size, got, FALSE,
                          IF h.sec = "params" THEN sbuf[r] ELSE NoText, NoData))]
           /\ nshort' = IF got < h.size THEN nshort + 1 ELSE nshort
  /\ pos' = [pos EXCEPT ![r].hdr = @ + 1]
  /\ UNCHANGED <<config, time, out_params, pin, fname, sbuf, noutmbs_min, noutmbs_max, outarray,
                 data_size, myoffset, pc, msg, ndump>>

\* variant: the payload begun after STEP 2, data_size and the RNG state left out
ComputeOffsets_AfterStep2(r) ==
  /\ pc[r] = "header"
  /\ r = 0 => pos[r].hdr > Len(Step12Sections(r))
  /\ data_size' = [data_size EXCEPT ![r] = ComputeDataSize(r)]
  /\ myoffset' = [myoffset EXCEPT ![r] = ComputeMyOffset(r, ComputeDataSize(r))]
  /\ pos' = [pos EXCEPT ![r] = NextWrite(r, StartPos)]
  /\ pc' = [pc EXCEPT ![r] = "payload"]
  /\ UNCHANGED <<config, time, out_params, pin, fname, sbuf, noutmbs_min, noutmbs_max, outarray,
                 wlog, msg, nshort, ndump>>

\* data_size, step1size, step2size and myoffset (restart.cpp 186-220), computed by
\* every rank: after its header writes on rank 0, at once on the others
ComputeOffsets(r) ==
  /\ pc[r] = "header"
  /\ r = 0 => pos[r].hdr > Len(HeaderSections(r))
  /\ data_size' = [data_size EXCEPT ![r] = ComputeDataSize(r)]
  /\ myoffset' = [myoffset EXCEPT ![r] = ComputeMyOffset(r, ComputeDataSize(r))]
  /\ pos' = [pos EXCEPT ![r] = NextWrite(r, StartPos)]
  /\ pc' = [pc EXCEPT ![r] = "payload"]
  /\ UNCHANGED <<config, time, out_params, pin, fname, sbuf, noutmbs_min, noutmbs_max, outarray,
                 wlog, msg, nshort, ndump>>

\* the array the rank is about to write and its element count
CurArray(r) == LoopArrays[pos[r].lp][pos[r].f]
mbcnt(r) == SubviewSize(CurArray(r))

\* number of collective writes a rank has entered on the current file
NColl(r) == Cardinality({i \in 1 .. Len(wlog[r]) : wlog[r][i].coll})

\* resfile.Write_Reals_at_all(ptr, cnt, myoffset): the rank enters the collective
CollectiveWrite(r) ==
  /\ pc[r] = "payload"
  /\ pos[r].lp <= NLoops
  /\ IsCollective(r, pos[r].m)
  /\ \E got \in Outcomes(mbcnt(r)) :
       /\ wlog' = [wlog EXCEPT ![r] = Append(@,
             WriteRec(CurArray(r), pos[r].m, myoffset[r], mbcnt(r) * sizeofReal,
                      got * sizeofReal, TRUE, NoText, Subview(r, CurArray(r))))]
       /\ nshort' = IF got < mbcnt(r) THEN nshort + 1 ELSE nshort
  /\ pc' = [pc EXCEPT ![r] = "coll"]
  /\ UNCHANGED <<config, time, out_params, pin, fname, sbuf, noutmbs_min, noutmbs_max, outarray,
                 data_size, myoffset, pos, msg, ndump>>

\* what follows a payload write that returned the bytes of `w`: the fatal exit on a
\* count other than mbcnt, else myoffset += mbcnt*sizeof(Real) and the next write
AfterPayloadWrite(r, w) ==
  IF w.wrote # w.req
    THEN /\ msg' = [msg EXCEPT ![r] = FatalText(w.sec)]
         /\ pc' = [pc EXCEPT ![r] = "exited"]
         /\ UNCHANGED <<myoffset, pos>>
    ELSE /\ myoffset' = [myoffset EXCEPT ![r] = @ + mbcnt(r) * sizeofReal]
         /\ pos' = [pos EXCEPT ![r] = AfterArray(r, @)]
         /\ pc' = [pc EXCEPT ![r] = "payload"]
         /\ UNCHANGED msg

\* the collective write returns once every rank has entered the matching call
CollectiveReturn(r) ==
  /\ pc[r] = "coll"
  /\ \A q \in Ranks : NColl(q) >= NColl(r)
  /\ AfterPayloadWrite(r, wlog[r][Len(wlog[r])])
  /\ UNCHANGED <<config, time, out_params, pin, fname, sbuf, noutmbs_min, noutmbs_max, outarray,
                 data_size, wlog, nshort, ndump>>

\* resfile.Write_Reals_at(ptr, cnt, myoffset): non-collective
IndependentWrite(r) ==
  /\ pc[r] = "payload"
  /\ pos[r].lp <= NLoops
  /\ ~IsCollective(r, pos[r].m)
  /\ \E got \in Outcomes(mbcnt(r)) :
       LET w == WriteRec(CurArray(r), pos[r].m, myoffset[r], mbcnt(r) * sizeofReal,
                         got * sizeofReal, FALSE, NoText, Subview(r, CurArray(r)))
       IN  /\ wlog' = [wlog EXCEPT ![r] = Append(@, w)]
           /\ nshort' = IF got < mbcnt(r) THEN nshort + 1 ELSE nshort
           /\ AfterPayloadWrite(r, w)
  /\ UNCHANGED <<config, time, out_params, pin, fname, sbuf, noutmbs_min, noutmbs_max, outarray,
                 data_size, ndump>>

\* resfile.Close(): the rank enters the collective close
CloseFile(r) ==
  /\ pc[r] = "payload"
  /\ pos[r].lp > NLoops
  /\ pc' = [pc EXCEPT ![r] = "closing"]
  /\ UNCHANGED <<config, time, out_params, pin, fname, sbuf, noutmbs_min, noutmbs_max, outarray,
                 data_size, myoffset, pos, wlog, msg, nshort, ndump>>

\* the close returns once every rank has entered it
CloseReturn(r) ==
  /\ pc[r] = "closing"
  /\ \A q \in Ranks : ndump[q] > ndump[r] \/ pc[q] \in {"closing", "closed"}
  /\ pc' = [pc EXCEPT ![r] = "closed"]
  /\ UNCHANGED <<config, time, out_params, pin, fname, sbuf, noutmbs_min, noutmbs_max, outarray,
                 data_size, myoffset, pos, wlog, msg, nshort, ndump>>

\* the driver integrates on and reaches the next restart output
NextDump(r) ==
  /\ pc[r] = "closed"
  /\ ndump[r] < MaxDumps
  /\ time' = [time EXCEPT ![r] = @ + 3]
  /\ ndump' = [ndump EXCEPT ![r] = @ + 1]
  /\ pc' = [pc EXCEPT ![r] = "start"]
  /\ UNCHANGED <<config, out_params, pin, fname, sbuf, noutmbs_min, noutmbs_max, outarray,
                 data_size, myoffset, pos, wlog, msg, nshort>>

Next ==
  \/ \E r \in Ranks : LoadOutputData(r)
  \/ \E r \in Ranks : BeginWrite(r)
  \/ \E r \in Ranks : OpenReturn(r)
  \/ \E r \in Ranks : WriteHeader(r)
  \/ \E r \in Ranks : ComputeOffsets(r)
  \/ \E r \in Ranks : CollectiveWrite(r)
  \/ \E r \in Ranks : CollectiveReturn(r)
  \/ \E r \in Ranks : IndependentWrite(r)
  \/ \E r \in Ranks : CloseFile(r)
  \/ \E r \in Ranks : CloseReturn(r)
  \/ \E r \in Ranks : NextDump(r)

Spec == Init /\ [][Next]_vars

\* Every rank is a process of its own that keeps running: a step it can take
\* for ever is eventually taken.
RankIds == 0 .. 2
RankStep(r) ==
  /\ r \in Ranks
  /\ \/ LoadOutputData(r) \/ BeginWrite(r) \/ OpenReturn(r) \/ WriteHeader(r)
     \/ ComputeOffsets(r) \/ CollectiveWrite(r) \/ CollectiveReturn(r)
     \/ IndependentWrite(r) \/ CloseFile(r) \/ CloseReturn(r) \/ NextDump(r)
LiveSpec == Init /\ [][Next]_vars /\ \A r \in RankIds : WF_vars(RankStep(r))

\* ------------------------------------------------- the buffers change
\* a task of the time step changes the content of a buffer of a module present
Evolve(r, a) ==
  /\ nevolve < MaxEvolve
  /\ a \in ActiveArrays
  /\ live' = [live EXCEPT ![r][a] = 1 - @]
  /\ nevolve' = nevolve + 1
  /\ UNCHANGED <<nmb_eachrank, indcs, active, time, out_params, pin, fname, sbuf,
                 noutmbs_min, noutmbs_max, outarray, data_size, myoffset, pos, pc,
                 wlog, msg, nshort, ndump, other_vars>>

\* the runs in which the buffers change while restart files are written: two ranks
\* with 2 and 1 MeshBlocks, a fluid or a magnetized fluid, a new run
DataInit ==
  \E act \in {{"hydro"}, {"mhd"}} :
    \E run \in {x \in Runs : x.op.file_number = 0} :
      InitWith(PerRank(<<2, 1>>), act, run) /\ OthersIdle

DataNext ==
  \/ \E r \in Ranks : LoadOutputData(r)
  \/ \E r \in Ranks : BeginWrite(r)
  \/ \E r \in Ranks : OpenReturn(r)
  \/ \E r \in Ranks : WriteHeader(r)
  \/ \E r \in Ranks : ComputeOffsets(r)
  \/ \E r \in Ranks : CollectiveWrite(r)
  \/ \E r \in Ranks : CollectiveReturn(r)
  \/ \E r \in Ranks : IndependentWrite(r)
  \/ \E r \in Ranks : CloseFile(r)
  \/ \E r \in Ranks : CloseReturn(r)
  \/ \E r \in Ranks : NextDump(r)
  \/ \E r \in Ranks : \E a \in Arrays : Evolve(r, a)

DataSpec == DataInit /\ [][DataNext]_vars

\* ==================================================== problem generators
\* ------------------------------------------------------------ exact fractions
Rat(n, d) == [n |-> n, d |-> d]
RatAdd(a, b) == Rat(a.n * b.d + b.n * a.d, a.d * b.d)
RatDiv(a, b) == Rat(a.n * b.d, a.d * b.n)
RatMulInt(a, k) == Rat(a.n * k, a.d)
RatDivInt(a, k) == Rat(a.n, a.d * k)

RECURSIVE Gcd(_, _)
Gcd(a, b) == IF b = 0 THEN a ELSE Gcd(b, a % b)
Lcm(a, b) == (a \div Gcd(a, b)) * b

\* ------------------------------------------------------------ horizon finder
\* parameters of the horizon finder in UserProblem (radius in tenths, the residual
\* target 1e-5 and the integrated H in units of 1e-6)
nlev == 10
nfilt == 16
radius == 8
maxit == 100
tolerance == 10
alpha == Rat(1, 1)
beta == Rat(1, 2)

\* (int) sqrt(i)
RECURSIVE SqrtUp(_, _)
SqrtUp(i, l) == IF (l + 1) * (l + 1) > i THEN l ELSE SqrtUp(i, l + 1)
IntSqrt(i) == SqrtUp(i, 0)

\* A = alpha/(nfilt*(nfilt+1))+beta, B = beta/alpha
A == RatAdd(RatDivInt(alpha, nfilt * (nfilt + 1)), beta)
B == RatDiv(beta, alpha)

\* variant: the same damping for every mode
Damping_NoMode(l) == A
\* A/(1+B*l*(l+1))
Damping(l) == RatDiv(A, RatAdd(Rat(1, 1), RatMulInt(B, l * (l + 1))))

\* the unit of the coefficients of H: every damped coefficient is a whole number
RECURSIVE LcmUpTo(_)
LcmUpTo(l) == IF l = 0 THEN Damping(0).d ELSE Lcm(LcmUpTo(l - 1), Damping(l).d)
HUnit == LcmUpTo(IntSqrt(nfilt - 1))

\* q * x for a fraction q and a whole number x that q.d divides
Scaled(q, x) == (q.n * x) \div q.d

\* a field on the surface, held by its first nfilt spectral coefficients
SpectralToSpatial(c) == c
SpatialToSpectral(f) == f

\* the H fields SurfaceNullExpansion may return: integrated value above the target,
\* below minus the target, at the target, at minus the target, and not a number;
\* amp scales the spectral coefficients
HField(isnan, int, amp) ==
  [nan |-> isnan, int |-> int,
   coef |-> [i \in 1 .. nfilt |-> amp * HUnit * (1 + (i % 2))]]
HFields == {HField(FALSE, 25, 1), HField(FALSE, -11, 1), HField(FALSE, tolerance, 0),
            HField(FALSE, -tolerance, -1), HField(TRUE, 0, 0)}

\* S->Integrate(H)
Integrate(h) == [nan |-> h.nan, v |-> h.int]

Abs(x) == IF x < 0 THEN -x ELSE x
\* variant: the test without the absolute value
TargetAchieved_Signed(hi) == ~hi.nan /\ hi.v <= tolerance
\* std::abs(H_integrated)<=1e-5
TargetAchieved(hi) == ~hi.nan /\ Abs(hi.v) <= tolerance

\* new GaussLegendreGrid(pmbp, nlev, radius, nfilt): a sphere of the given radius
\* with the Jacobian of that radius
NewGaussLegendreGrid(rad) ==
  LET r0 == [i \in 1 .. nfilt |-> IF i = 1 THEN rad * HUnit ELSE 0]
  IN  [alive |-> TRUE, pointwise_radius |-> r0, surface_jacobian |-> r0]

\* S->SetPointwiseRadius(r, ctr): the radius and the Jacobian of that radius
SetPointwiseRadius(g, r) == [g EXCEPT !.pointwise_radius = r, !.surface_jacobian = r]

\* the loop over i of the update: r_spectral_np1
UpdateCoefficients(r_spectral, h_spectral) ==
  [i \in 1 .. nfilt |->
     r_spectral[i] - Scaled(Damping(IntSqrt(i - 1)), h_spectral[i])]

PgenUnchanged == UNCHANGED <<restart_vars, tri_vars, wave_vars, fn_vars, hist_vars, bc_vars>>

\* the test of pz4c at the start of UserProblem
CheckZ4c ==
  /\ problem = "z4c_one_puncture" /\ ppc = "start"
  /\ IF ~pmbp.pz4c
       THEN ppc' = "exited" /\ cout' = cout \cup {"FATAL no z4c"}
       ELSE ppc' = "initdata" /\ UNCHANGED cout
  /\ UNCHANGED <<problem, pmbp, restart, pin_problem, done, user_bcs_func,
                 user_hist_func, spherical_grids, S, H, H_integrated, H_spectral,
                 r_np1, itr, nupdate>>
  /\ PgenUnchanged

\* ADMOnePuncture, GaugePreCollapsedLapse, ADMToZ4c and metric_partial
InitialData ==
  /\ problem = "z4c_one_puncture" /\ ppc = "initdata"
  /\ done' = done \cup {"ADMOnePuncture", "GaugePreCollapsedLapse", "ADMToZ4c",
                        "metric_partial"}
  /\ cout' = cout \cup {"initialized"}
  /\ ppc' = "newgrid"
  /\ UNCHANGED <<problem, pmbp, restart, pin_problem, user_bcs_func,
                 user_hist_func, spherical_grids, S, H, H_integrated, H_spectral,
                 r_np1, itr, nupdate>>
  /\ PgenUnchanged

\* S = new GaussLegendreGrid, the initial H and its integral
StartHorizonFinder ==
  /\ problem = "z4c_one_puncture" /\ ppc = "newgrid"
  /\ S' = NewGaussLegendreGrid(radius)
  /\ ppc' = "H0"
  /\ UNCHANGED <<problem, pmbp, restart, pin_problem, done, user_bcs_func,
                 user_hist_func, spherical_grids, H, H_integrated, H_spectral,
                 r_np1, itr, nupdate, cout>>
  /\ PgenUnchanged

\* variant: the initial H tested against the tolerance before the loop
InitialExpansion_Tested ==
  /\ problem = "z4c_one_puncture" /\ ppc = "H0"
  /\ \E h \in HFields :
       /\ H' = h /\ H_integrated' = Integrate(h)
       /\ ppc' = IF TargetAchieved(Integrate(h)) THEN "delete" ELSE "loop"
  /\ cout' = cout \cup {"Initial Norm of H"}
  /\ itr' = 0
  /\ UNCHANGED <<problem, pmbp, restart, pin_problem, done, user_bcs_func,
                 user_hist_func, spherical_grids, S, H_spectral, r_np1, nupdate>>
  /\ PgenUnchanged

\* H = SurfaceNullExpansion(pmbp, S, dg_ddd) before the loop; H_integrated
InitialExpansion ==
  /\ problem = "z4c_one_puncture" /\ ppc = "H0"
  /\ \E h \in HFields : H' = h /\ H_integrated' = Integrate(h)
  /\ cout' = cout \cup {"Initial Norm of H"}
  /\ itr' = 0
  /\ ppc' = "loop"
  /\ UNCHANGED <<problem, pmbp, restart, pin_problem, done, user_bcs_func,
                 user_hist_func, spherical_grids, S, H_spectral, r_np1, nupdate>>
  /\ PgenUnchanged

\* variant: the loop test itr<=maxit
FilterAndUpdate_OneMore ==
  /\ problem = "z4c_one_puncture" /\ ppc = "loop"
  /\ IF itr <= maxit
       THEN /\ H_spectral' = SpatialToSpectral(H.coef)
            /\ r_np1' = SpectralToSpatial(
                 UpdateCoefficients(SpatialToSpectral(S.pointwise_radius),
                                    SpatialToSpectral(H.coef)))
            /\ ppc' = "setradius"
       ELSE /\ ppc' = "delete"
            /\ UNCHANGED <<H_spectral, r_np1>>
  /\ UNCHANGED <<problem, pmbp, restart, pin_problem, done, user_bcs_func,
                 user_hist_func, spherical_grids, S, H, H_integrated, itr, nupdate,
                 cout>>
  /\ PgenUnchanged

\* itr<maxit, then the spectral coefficients and the new radius; else the loop ends
FilterAndUpdate ==
  /\ problem = "z4c_one_puncture" /\ ppc = "loop"
  /\ IF itr < maxit
       THEN /\ H_spectral' = SpatialToSpectral(H.coef)
            /\ r_np1' = SpectralToSpatial(
                 UpdateCoefficients(SpatialToSpectral(S.pointwise_radius),
                                    SpatialToSpectral(H.coef)))
            /\ ppc' = "setradius"
       ELSE /\ ppc' = "delete"
            /\ UNCHANGED <<H_spectral, r_np1>>
  /\ UNCHANGED <<problem, pmbp, restart, pin_problem, done, user_bcs_func,
                 user_hist_func, spherical_grids, S, H, H_integrated, itr, nupdate,
                 cout>>
  /\ PgenUnchanged

\* variant: the radius assigned without SetPointwiseRadius
ResetRadius_Direct ==
  /\ problem = "z4c_one_puncture" /\ ppc = "setradius"
  /\ S' = [S EXCEPT !.pointwise_radius = r_np1]
  /\ nupdate' = nupdate + 1
  /\ ppc' = "evalH"
  /\ UNCHANGED <<problem, pmbp, restart, pin_problem, done, user_bcs_func,
                 user_hist_func, spherical_grids, H, H_integrated, H_spectral,
                 r_np1, itr, cout>>
  /\ PgenUnchanged

\* reset radius: S->SetPointwiseRadius(r_np1,ctr)
ResetRadius ==
  /\ problem = "z4c_one_puncture" /\ ppc = "setradius"
  /\ S' = SetPointwiseRadius(S, r_np1)
  /\ nupdate' = nupdate + 1
  /\ ppc' = "evalH"
  /\ UNCHANGED <<problem, pmbp, restart, pin_problem, done, user_bcs_func,
                 user_hist_func, spherical_grids, H, H_integrated, H_spectral,
                 r_np1, itr, cout>>
  /\ PgenUnchanged

\* reevaluate H, H_integrated and the line printed for the iteration
ReevaluateH ==
  /\ problem = "z4c_one_puncture" /\ ppc = "evalH"
  /\ \E h \in HFields : H' = h /\ H_integrated' = Integrate(h)
  /\ cout' = cout \cup {"Itr"}
  /\ ppc' = "test"
  /\ UNCHANGED <<problem, pmbp, restart, pin_problem, done, user_bcs_func,
                 user_hist_func, spherical_grids, S, H_spectral, r_np1, itr, nupdate>>
  /\ PgenUnchanged

\* if (std::abs(H_integrated)<=1e-5) break; else ++itr
ConvergenceTest ==
  /\ problem = "z4c_one_puncture" /\ ppc = "test"
  /\ IF TargetAchieved(H_integrated)
       THEN /\ cout' = cout \cup {"target residual achieved"}
            /\ ppc' = "delete"
            /\ UNCHANGED itr
       ELSE /\ itr' = itr + 1
            /\ ppc' = "loop"
            /\ UNCHANGED cout
  /\ UNCHANGED <<problem, pmbp, restart, pin_problem, done, user_bcs_func,
                 user_hist_func, spherical_grids, S, H, H_integrated, H_spectral,
                 r_np1, nupdate>>
  /\ PgenUnchanged

\* delete S; return
DeleteAndReturn ==
  /\ problem = "z4c_one_puncture" /\ ppc = "delete"
  /\ S' = NoGrid
  /\ ppc' = "returned"
  /\ UNCHANGED <<problem, pmbp, restart, pin_problem, done, user_bcs_func,
                 user_hist_func, spherical_grids, H, H_integrated, H_spectral,
                 r_np1, itr, nupdate, cout>>
  /\ PgenUnchanged

\* ------------------------------------------------------------ gr_torus
\* variant: the functions enrolled before the test of the coordinates
CheckGR_AfterEnroll ==
  /\ problem = "gr_torus" /\ ppc = "start"
  /\ user_bcs_func' = "NoInflowTorus"
  /\ IF ~pmbp.is_general_relativistic
       THEN ppc' = "exited" /\ cout' = cout \cup {"FATAL no GR"}
       ELSE ppc' = "enroll" /\ UNCHANGED cout
  /\ UNCHANGED <<problem, pmbp, restart, pin_problem, done,
                 user_hist_func, spherical_grids, S, H, H_integrated, H_spectral,
                 r_np1, itr, nupdate>>
  /\ PgenUnchanged

\* the test of pcoord->is_general_relativistic at the start of UserProblem
CheckGR ==
  /\ problem = "gr_torus" /\ ppc = "start"
  /\ IF ~pmbp.is_general_relativistic
       THEN ppc' = "exited" /\ cout' = cout \cup {"FATAL no GR"}
       ELSE ppc' = "enroll" /\ UNCHANGED cout
  /\ UNCHANGED <<problem, pmbp, restart, pin_problem, done, user_bcs_func,
                 user_hist_func, spherical_grids, S, H, H_integrated, H_spectral,
                 r_np1, itr, nupdate>>
  /\ PgenUnchanged

\* user_bcs_func, the spherical grid, user_hist_func; return if restart
EnrollFunctions ==
  /\ problem = "gr_torus" /\ ppc = "enroll"
  /\ user_bcs_func' = "NoInflowTorus"
  /\ spherical_grids' = spherical_grids + 1
  /\ user_hist_func' = "TorusHistory"
  /\ ppc' = IF restart THEN "returned" ELSE "params"
  /\ UNCHANGED <<problem, pmbp, restart, pin_problem, done, S, H, H_integrated,
                 H_spectral, r_np1, itr, nupdate, cout>>
  /\ PgenUnchanged

\* the parameters of <problem> and the choice of the torus
ReadParameters ==
  /\ problem = "gr_torus" /\ ppc = "params"
  /\ IF pin_problem.fm_torus \/ pin_problem.chakrabarti_torus
       THEN ppc' = "primitives" /\ UNCHANGED cout
       ELSE ppc' = "exited" /\ cout' = cout \cup {"FATAL torus type"}
  /\ UNCHANGED <<problem, pmbp, restart, pin_problem, done, user_bcs_func,
                 user_hist_func, spherical_grids, S, H, H_integrated, H_spectral,
                 r_np1, itr, nupdate>>
  /\ PgenUnchanged

\* initialize primitive variables for new run
InitPrimitives ==
  /\ problem = "gr_torus" /\ ppc = "primitives"
  /\ done' = done \cup {"w0"}
  /\ ppc' = "bfield"
  /\ UNCHANGED <<problem, pmbp, restart, pin_problem, user_bcs_func,
                 user_hist_func, spherical_grids, S, H, H_integrated, H_spectral,
                 r_np1, itr, nupdate, cout>>
  /\ PgenUnchanged

\* initialize magnetic fields
InitMagneticFields ==
  /\ problem = "gr_torus" /\ ppc = "bfield"
  /\ IF ~pmbp.pmhd
       THEN ppc' = "cons" /\ UNCHANGED <<done, cout>>
     ELSE IF pin_problem.sane = pin_problem.mad
       THEN ppc' = "exited" /\ cout' = cout \cup {"FATAL sane or mad"} /\ UNCHANGED done
     ELSE ppc' = "cons" /\ done' = done \cup {"b0", "bcc0"} /\ UNCHANGED cout
  /\ UNCHANGED <<problem, pmbp, restart, pin_problem, user_bcs_func,
                 user_hist_func, spherical_grids, S, H, H_integrated, H_spectral,
                 r_np1, itr, nupdate>>
  /\ PgenUnchanged

\* Convert primitives to conserved; return
PrimToCons ==
  /\ problem = "gr_torus" /\ ppc = "cons"
  /\ done' = done \cup {"u0"}
  /\ ppc' = "returned"
  /\ UNCHANGED <<problem, pmbp, restart, pin_problem, user_bcs_func,
                 user_hist_func, spherical_grids, S, H, H_integrated, H_spectral,
                 r_np1, itr, nupdate, cout>>
  /\ PgenUnchanged

\* ------------------------------------------------------------ both
\* a run of the one-puncture problem with or without a z4c module, or of the torus
\* with every choice of coordinates, restart flag, fluid and <problem> flags
PgenInit ==
  /\ InitWith(PerRank(<<1>>), {"hydro"}, CHOOSE x \in Runs : x.op.file_number = 0)
  /\ problem \in {"z4c_one_puncture", "gr_torus"}
  /\ ppc = "start"
  /\ restart \in BOOLEAN
  /\ pmbp \in [pz4c : BOOLEAN, phydro : BOOLEAN, pmhd : BOOLEAN,
               is_general_relativistic : BOOLEAN]
  /\ pin_problem \in [fm_torus : BOOLEAN, chakrabarti_torus : BOOLEAN,
                      sane : BOOLEAN, mad : BOOLEAN]
  /\ problem = "z4c_one_puncture" =>
       /\ ~restart /\ ~pmbp.phydro /\ ~pmbp.pmhd /\ ~pmbp.is_general_relativistic
       /\ pin_problem = [fm_torus |-> FALSE, chakrabarti_torus |-> FALSE,
                         sane |-> FALSE, mad |-> FALSE]
  /\ problem = "gr_torus" => (~pmbp.pz4c /\ pmbp.phydro # pmbp.pmhd)
  /\ done = {} /\ user_bcs_func = "" /\ user_hist_func = "" /\ spherical_grids = 0
  /\ S = NoGrid /\ H = NoField /\ H_integrated = [nan |-> FALSE, v |-> 0]
  /\ H_spectral = <<>> /\ r_np1 = <<>> /\ itr = 0 /\ nupdate = 0 /\ cout = {}
  /\ TriIdle /\ WaveIdle /\ FnIdle /\ HistIdle /\ BcIdle

PgenNext ==
  \/ CheckZ4c
  \/ InitialData
  \/ StartHorizonFinder
  \/ InitialExpansion
  \/ FilterAndUpdate
  \/ ResetRadius
  \/ ReevaluateH
  \/ ConvergenceTest
  \/ DeleteAndReturn
  \/ CheckGR
  \/ EnrollFunctions
  \/ ReadParameters
  \/ InitPrimitives
  \/ InitMagneticFields
  \/ PrimToCons

PgenSpec == PgenInit /\ [][PgenNext]_vars
PgenLive == PgenInit /\ [][PgenNext]_vars /\ WF_vars(PgenNext)

\* ================================================== RadiationFEMN::FindTriangles
\* (src/radiation_femn/radiation_femn_basis.cpp)
MaxTriangles == 3
MaxCalls == 2

\* the value Kokkos::deep_copy fills edge_triangles with
Sentinel == -42
SentinelRow == <<Sentinel, Sentinel, Sentinel>>

\* vertex indices and the triangles of a tetrahedron on them
Vertices == 0 .. 3
TrianglePool == {<<0, 1, 2>>, <<0, 2, 3>>, <<0, 3, 1>>, <<1, 2, 3>>}
\* lists of up to MaxTriangles of them, no triangle listed twice
TriangleLists ==
  {l \in UNION {[1 .. n -> TrianglePool] : n \in 0 .. MaxTriangles} :
     \A j \in DOMAIN l, k \in DOMAIN l : l[j] = l[k] => j = k}

\* extent(0) of edge_triangles; its allocation is not part of the sources here
EdgeExtents == {2, 3}

num_triangles == Len(triangles)

\* triangles(i, 0) == a || triangles(i, 1) == a || triangles(i, 2) == a
SharesVertex(t, a) == t[1] = a \/ t[2] = a \/ t[3] = a

\* variant: only the tests in which a comes before b
SharesEdge_AFirst(t, a, b) ==
  (t[1] = a /\ t[2] = b) \/ (t[1] = a /\ t[3] = b) \/ (t[2] = a /\ t[3] = b)

\* the six tests of the a != b branch
SharesEdge(t, a, b) ==
  \/ (t[1] = a /\ t[2] = b) \/ (t[1] = a /\ t[3] = b)
  \/ (t[1] = b /\ t[2] = a) \/ (t[1] = b /\ t[3] = a)
  \/ (t[2] = a /\ t[3] = b) \/ (t[2] = b /\ t[3] = a)

\* edge_triangles(row, col) = v of a view stored column by column (LayoutLeft),
\* row at or past the extent: the element at the same flat offset, if there is one
RECURSIVE AliasedStore(_, _, _, _)
AliasedStore(et, row, t, col) ==
  IF col > 2 THEN et
  ELSE LET n == Len(et)
           off == row + col * n
           nxt == IF off < 3 * n
                    THEN [et EXCEPT ![(off % n) + 1][(off \div n) + 1] = t[col + 1]]
                    ELSE et
       IN AliasedStore(nxt, row, t, col + 1)

\* edge_triangles(index, 0..2) = triangles(i, 0..2); index++. The code does not
\* compare index with the extent: a store past the last row is undefined, and
\* falls outside the view, on other elements of the view, or ends the process.
StoreTriangle(t) ==
  /\ is_edge' = TRUE
  /\ index' = index + 1
  /\ \/ /\ index < Len(edge_triangles)
        /\ edge_triangles' = [edge_triangles EXCEPT ![index + 1] = t]
        /\ tpc' = tpc
     \/ /\ index >= Len(edge_triangles)
        /\ \/ edge_triangles' = edge_triangles /\ tpc' = tpc
           \/ edge_triangles' = AliasedStore(edge_triangles, index, t, 0) /\ tpc' = tpc
           \/ edge_triangles' = edge_triangles /\ tpc' = "crashed"

TriUnchanged == UNCHANGED <<restart_vars, pgen_vars, wave_vars, fn_vars, hist_vars, bc_vars>>

\* entry of FindTriangles(a, b, is_edge): is_edge = false, deep_copy, index{0}
FindTriangles(a, b) ==
  /\ tpc = "ready" /\ ncalls < MaxCalls
  /\ va' = a /\ vb' = b
  /\ is_edge' = FALSE
  /\ edge_triangles' = [k \in DOMAIN edge_triangles |-> SentinelRow]
  /\ index' = 0 /\ ti' = 0
  /\ tpc' = "loop"
  /\ ncalls' = ncalls + 1
  /\ UNCHANGED triangles
  /\ TriUnchanged

\* one iteration of the loop of the branch a == b
SharedVertexStep ==
  /\ tpc = "loop" /\ va = vb /\ ti < num_triangles
  /\ IF SharesVertex(triangles[ti + 1], va)
       THEN StoreTriangle(triangles[ti + 1])
       ELSE UNCHANGED <<is_edge, index, edge_triangles, tpc>>
  /\ ti' = ti + 1
  /\ UNCHANGED <<triangles, va, vb, ncalls>>
  /\ TriUnchanged

\* one iteration of the loop of the branch a != b
SharedEdgeStep ==
  /\ tpc = "loop" /\ va # vb /\ ti < num_triangles
  /\ IF SharesEdge(triangles[ti + 1], va, vb)
       THEN StoreTriangle(triangles[ti + 1])
       ELSE UNCHANGED <<is_edge, index, edge_triangles, tpc>>
  /\ ti' = ti + 1
  /\ UNCHANGED <<triangles, va, vb, ncalls>>
  /\ TriUnchanged

\* the loop is over: FindTriangles returns
FindTrianglesReturn ==
  /\ tpc = "loop" /\ ti = num_triangles
  /\ tpc' = "ready"
  /\ UNCHANGED <<triangles, edge_triangles, va, vb, is_edge, ti, index, ncalls>>
  /\ TriUnchanged

\* a geometry of up to MaxTriangles triangles, edge_triangles of either extent with
\* any earlier content, no call made yet
TriInit ==
  /\ InitWith(PerRank(<<1>>), {"hydro"}, CHOOSE x \in Runs : x.op.file_number = 0)
  /\ PgenIdle /\ WaveIdle /\ FnIdle /\ HistIdle /\ BcIdle
  /\ triangles \in TriangleLists
  /\ \E n \in EdgeExtents : edge_triangles \in [1 .. n -> {SentinelRow, <<1, 2, 3>>}]
  /\ va = 0 /\ vb = 0 /\ is_edge \in BOOLEAN
  /\ ti = 0 /\ index = 0
  /\ tpc = "ready" /\ ncalls = 0

TriNext ==
  \/ \E a \in Vertices, b \in Vertices : FindTriangles(a, b)
  \/ SharedVertexStep
  \/ SharedEdgeStep
  \/ FindTrianglesReturn

TriSpec == TriInit /\ [][TriNext]_vars

\* ================================================ ProblemGenerator::LinearWave_
\* (linear_wave problem generator: LinearWave_ and LinearWaveErrors_)

\* content of a register: never written, the wave solution, the evolved solution
NoWave == [u0 |-> "empty", u1 |-> "empty"]
NoWaveB == [u0 |-> "empty", u1 |-> "empty", b0 |-> "empty", b1 |-> "empty"]

\* std::abs(lambda/ev[wave_flag]), the period of the selected mode, as a whole number
Period(wave_flag) == wave_flag + 2

WaveUnchanged ==
  UNCHANGED <<restart_vars, tri_vars, fn_vars, hist_vars, bc_vars, problem, pmbp, restart, pin_problem, done,
              user_bcs_func, user_hist_func, spherical_grids, S, H, H_integrated,
              H_spectral, r_np1, itr, nupdate>>

\* "error check input flags": the three tests at the start of LinearWave_
CheckFlags ==
  /\ problem = "linear_wave" /\ ppc = "start"
  /\ LET along_x1 == pin_problem.along_x1
         along_x2 == pin_problem.along_x2
         along_x3 == pin_problem.along_x3
     IN  IF (along_x1 /\ (along_x2 \/ along_x3)) \/ (along_x2 /\ along_x3)
           THEN cout' = cout \cup {"FATAL only one of along_x1/2/3"} /\ ppc' = "exited"
         ELSE IF (along_x2 \/ along_x3) /\ ~pmesh.nx2gt1
           THEN cout' = cout \cup {"FATAL along x2 or x3 in 1D"} /\ ppc' = "exited"
         ELSE IF along_x3 /\ ~pmesh.nx2gt1
           THEN cout' = cout \cup {"FATAL along x3 in 2D"} /\ ppc' = "exited"
         ELSE cout' = cout /\ ppc' = "hydro"
  /\ UNCHANGED <<set_initial_conditions, pmesh, tlim, phydro_regs, pmhd_regs>>
  /\ WaveUnchanged

\* "initialize Hydro variables": u1 is phydro->u1, or phydro->u0 when setting
\* initial conditions; tlim scaled when setting initial conditions
InitHydro ==
  /\ problem = "linear_wave" /\ ppc = "hydro"
  /\ IF pmbp.phydro
       THEN IF set_initial_conditions
              THEN /\ phydro_regs' = [phydro_regs EXCEPT !.u0 = "wave"]
                   /\ tlim' = tlim * Period(pin_problem.wave_flag)
              ELSE /\ phydro_regs' = [phydro_regs EXCEPT !.u1 = "wave"]
                   /\ tlim' = tlim
       ELSE UNCHANGED <<phydro_regs, tlim>>
  /\ ppc' = "mhd"
  /\ UNCHANGED <<set_initial_conditions, pmesh, pmhd_regs, cout>>
  /\ WaveUnchanged

\* "initialize MHD variables": u0 and b0 of pmhd written, tlim scaled
InitMHD ==
  /\ problem = "linear_wave" /\ ppc = "mhd"
  /\ IF pmbp.pmhd
       THEN /\ pmhd_regs' = [pmhd_regs EXCEPT !.u0 = "wave", !.b0 = "wave"]
            /\ tlim' = tlim * Period(pin_problem.wave_flag)
       ELSE UNCHANGED <<pmhd_regs, tlim>>
  /\ ppc' = "returned"
  /\ UNCHANGED <<set_initial_conditions, pmesh, phydro_regs, cout>>
  /\ WaveUnchanged

\* the driver evolves the initial conditions to tlim
RunDriver ==
  /\ problem = "linear_wave" /\ ppc = "returned" /\ set_initial_conditions
  /\ phydro_regs' = IF pmbp.phydro THEN [phydro_regs EXCEPT !.u0 = "evolved"]
                    ELSE phydro_regs
  /\ pmhd_regs' = IF pmbp.pmhd
                    THEN [pmhd_regs EXCEPT !.u0 = "evolved", !.b0 = "evolved"]
                    ELSE pmhd_regs
  /\ ppc' = "evolved"
  /\ UNCHANGED <<set_initial_conditions, pmesh, tlim, cout>>
  /\ WaveUnchanged

\* LinearWaveErrors_: set_initial_conditions = false; LinearWave_(pmbp, pin)
LinearWaveErrors_ ==
  /\ problem = "linear_wave" /\ ppc = "evolved"
  /\ set_initial_conditions' = FALSE
  /\ ppc' = "start"
  /\ UNCHANGED <<pmesh, tlim, phydro_regs, pmhd_regs, cout>>
  /\ WaveUnchanged

\* LinearWave_ called to set the initial conditions: any flags, a mesh of one, two
\* or three dimensions, hydro, MHD or both
WaveInit ==
  /\ InitWith(PerRank(<<1>>), {"hydro"}, CHOOSE x \in Runs : x.op.file_number = 0)
  /\ TriIdle /\ FnIdle /\ HistIdle /\ BcIdle
  /\ problem = "linear_wave" /\ ppc = "start"
  /\ restart = FALSE
  /\ pmbp \in {p \in [pz4c : {FALSE}, phydro : BOOLEAN, pmhd : BOOLEAN,
                      is_general_relativistic : {FALSE}] : p.phydro \/ p.pmhd}
  /\ pin_problem \in [along_x1 : BOOLEAN, along_x2 : BOOLEAN, along_x3 : BOOLEAN,
                      wave_flag : {0, 1}]
  /\ done = {} /\ user_bcs_func = "" /\ user_hist_func = "" /\ spherical_grids = 0
  /\ S = NoGrid /\ H = NoField /\ H_integrated = [nan |-> FALSE, v |-> 0]
  /\ H_spectral = <<>> /\ r_np1 = <<>> /\ itr = 0 /\ nupdate = 0 /\ cout = {}
  /\ set_initial_conditions = TRUE
  /\ pmesh \in {m \in [nx2gt1 : BOOLEAN, nx3gt1 : BOOLEAN] : m.nx3gt1 => m.nx2gt1}
  /\ tlim \in {1, 5}
  /\ phydro_regs = NoWave /\ pmhd_regs = NoWaveB

WaveNext ==
  \/ CheckFlags
  \/ InitHydro
  \/ InitMHD
  \/ RunDriver
  \/ LinearWaveErrors_

WaveSpec == WaveInit /\ [][WaveNext]_vars

\* ===================================== RadiationFEMN basis functions, SYMM2_Ind
\* Barycentric coordinates and the values of the basis functions are whole numbers
\* of 1/XiUnit.
XiUnit == 6
Points == {x \in (0 .. XiUnit) \X (0 .. XiUnit) \X (0 .. XiUnit) :
             x[1] + x[2] + x[3] = XiUnit}

\* a comparison used as a number
BoolToInt(c) == IF c THEN 1 ELSE 0

\* Basis 1: overlapping tent
FEMBasis1Type1(xi1, xi2, xi3) == 2 * xi1 + xi2 + xi3 - XiUnit
FEMBasis2Type1(xi1, xi2, xi3) == xi1 + 2 * xi2 + xi3 - XiUnit
FEMBasis3Type1(xi1, xi2, xi3) == xi1 + xi2 + 2 * xi3 - XiUnit

\* Basis 2: small tent
FEMBasis1Type2(xi1, xi2, xi3) == BoolToInt(2 * xi1 >= XiUnit) * (xi1 - xi2 - xi3)
FEMBasis2Type2(xi1, xi2, xi3) == BoolToInt(2 * xi2 >= XiUnit) * (xi2 - xi3 - xi1)
FEMBasis3Type2(xi1, xi2, xi3) == BoolToInt(2 * xi3 >= XiUnit) * (xi3 - xi1 - xi2)

\* Basis 3: overlapping honeycomb
FEMBasis1Type3(xi1, xi2, xi3) == XiUnit
FEMBasis2Type3(xi1, xi2, xi3) == XiUnit
FEMBasis3Type3(xi1, xi2, xi3) == XiUnit

\* Basis 4: non-overlapping honeycomb
FEMBasis1Type4(xi1, xi2, xi3) == BoolToInt(xi1 >= xi2) * BoolToInt(xi1 > xi3) * XiUnit
FEMBasis2Type4(xi1, xi2, xi3) == BoolToInt(xi2 >= xi3) * BoolToInt(xi2 > xi1) * XiUnit
FEMBasis3Type4(xi1, xi2, xi3) == BoolToInt(xi3 >= xi1) * BoolToInt(xi3 > xi2) * XiUnit

\* what a call gives: a value, or the end of the process
Gives(v) == [exited |-> FALSE, value |-> v]
Exited == [exited |-> TRUE, value |-> 0]

\* variant: the last test left out, every other pair taken as (3, 4)
FEMBasis_LastIsDefault(xi1, xi2, xi3, basis_index, basis_choice) ==
  IF basis_index = 1 /\ basis_choice = 1 THEN Gives(FEMBasis1Type1(xi1, xi2, xi3))
  ELSE IF basis_index = 1 /\ basis_choice = 2 THEN Gives(FEMBasis1Type2(xi1, xi2, xi3))
  ELSE IF basis_index = 1 /\ basis_choice = 3 THEN Gives(FEMBasis1Type3(xi1, xi2, xi3))
  ELSE IF basis_index = 1 /\ basis_choice = 4 THEN Gives(FEMBasis1Type4(xi1, xi2, xi3))
  ELSE IF basis_index = 2 /\ basis_choice = 1 THEN Gives(FEMBasis2Type1(xi1, xi2, xi3))
  ELSE IF basis_index = 2 /\ basis_choice = 2 THEN Gives(FEMBasis2Type2(xi1, xi2, xi3))
  ELSE IF basis_index = 2 /\ basis_choice = 3 THEN Gives(FEMBasis2Type3(xi1, xi2, xi3))
  ELSE IF basis_index = 2 /\ basis_choice = 4 THEN Gives(FEMBasis2Type4(xi1, xi2, xi3))
  ELSE IF basis_index = 3 /\ basis_choice = 1 THEN Gives(FEMBasis3Type1(xi1, xi2, xi3))
  ELSE IF basis_index = 3 /\ basis_choice = 2 THEN Gives(FEMBasis3Type2(xi1, xi2, xi3))
  ELSE IF basis_index = 3 /\ basis_choice = 3 THEN Gives(FEMBasis3Type3(xi1, xi2, xi3))
  ELSE Gives(FEMBasis3Type4(xi1, xi2, xi3))

\* FEM basis in barycentric coordinates
FEMBasis(xi1, xi2, xi3, basis_index, basis_choice) ==
  IF basis_index = 1 /\ basis_choice = 1 THEN Gives(FEMBasis1Type1(xi1, xi2, xi3))
  ELSE IF basis_index = 1 /\ basis_choice = 2 THEN Gives(FEMBasis1Type2(xi1, xi2, xi3))
  ELSE IF basis_index = 1 /\ basis_choice = 3 THEN Gives(FEMBasis1Type3(xi1, xi2, xi3))
  ELSE IF basis_index = 1 /\ basis_choice = 4 THEN Gives(FEMBasis1Type4(xi1, xi2, xi3))
  ELSE IF basis_index = 2 /\ basis_choice = 1 THEN Gives(FEMBasis2Type1(xi1, xi2, xi3))
  ELSE IF basis_index = 2 /\ basis_choice = 2 THEN Gives(FEMBasis2Type2(xi1, xi2, xi3))
  ELSE IF basis_index = 2 /\ basis_choice = 3 THEN Gives(FEMBasis2Type3(xi1, xi2, xi3))
  ELSE IF basis_index = 2 /\ basis_choice = 4 THEN Gives(FEMBasis2Type4(xi1, xi2, xi3))
  ELSE IF basis_index = 3 /\ basis_choice = 1 THEN Gives(FEMBasis3Type1(xi1, xi2, xi3))
  ELSE IF basis_index = 3 /\ basis_choice = 2 THEN Gives(FEMBasis3Type2(xi1, xi2, xi3))
  ELSE IF basis_index = 3 /\ basis_choice = 3 THEN Gives(FEMBasis3Type3(xi1, xi2, xi3))
  ELSE IF basis_index = 3 /\ basis_choice = 4 THEN Gives(FEMBasis3Type4(xi1, xi2, xi3))
  ELSE Exited

\* (a == t1) * 1 + (a == t2) * 2 + (a == t3) * 3
BasisIndex(a, t1, t2, t3) ==
  BoolToInt(a = t1) * 1 + BoolToInt(a = t2) * 2 + BoolToInt(a = t3) * 3

\* FEM basis given its index and triangle information
FEMBasisA(a, t1, t2, t3, xi1, xi2, xi3, basis_choice) ==
  FEMBasis(xi1, xi2, xi3, BasisIndex(a, t1, t2, t3), basis_choice)

\* product of two FEM basis given their index and triangle info (in 1/XiUnit^2)
FEMBasisABasisB(a, b, t1, t2, t3, xi1, xi2, xi3, basis_choice) ==
  LET FEMBasisA_ == FEMBasis(xi1, xi2, xi3, BasisIndex(a, t1, t2, t3), basis_choice)
      FEMBasisB_ == FEMBasis(xi1, xi2, xi3, BasisIndex(b, t1, t2, t3), basis_choice)
  IN  IF FEMBasisA_.exited \/ FEMBasisB_.exited THEN Exited
      ELSE Gives(FEMBasisA_.value * FEMBasisB_.value)

\* variant: the last branch adds 2, as the branch v1 == 1 does
SYMM2_Ind_SameShift(v1, v2) ==
  IF v1 = 0 THEN v2
  ELSE IF v1 = 1 THEN (IF v2 = 0 THEN 1 ELSE v2 + 2)
  ELSE (IF v2 = 0 THEN 2 ELSE v2 + 2)

\* int SYMM2_Ind(int v1, int v2)
SYMM2_Ind(v1, v2) ==
  IF v1 = 0 THEN v2
  ELSE IF v1 = 1 THEN (IF v2 = 0 THEN 1 ELSE v2 + 2)
  ELSE (IF v2 = 0 THEN 2 ELSE v2 + 3)

FnUnchanged == UNCHANGED <<restart_vars, pgen_vars, tri_vars, wave_vars, hist_vars, bc_vars>>

\* a call of FEMBasis with any selector
CallFEMBasis ==
  /\ fcall.fn = "none"
  /\ \E x \in Points, basis_index \in 0 .. 4, basis_choice \in 0 .. 5 :
       /\ fcall' = [fn |-> "FEMBasis", xi |-> x, basis_index |-> basis_index,
                    basis_choice |-> basis_choice]
       /\ fresult' = FEMBasis(x[1], x[2], x[3], basis_index, basis_choice)
  /\ FnUnchanged

\* a call of FEMBasisA for a vertex and a triangle
CallFEMBasisA ==
  /\ fcall.fn = "none"
  /\ \E x \in Points, basis_choice \in 1 .. 4, a \in Vertices,
        t1 \in Vertices, t2 \in Vertices, t3 \in Vertices :
       /\ fcall' = [fn |-> "FEMBasisA", xi |-> x, a |-> a, t |-> <<t1, t2, t3>>,
                    basis_choice |-> basis_choice]
       /\ fresult' = FEMBasisA(a, t1, t2, t3, x[1], x[2], x[3], basis_choice)
  /\ FnUnchanged

\* a call of FEMBasisABasisB for two vertices and a triangle
CallFEMBasisABasisB ==
  /\ fcall.fn = "none"
  /\ \E x \in Points, basis_choice \in {1, 4}, a \in Vertices, b \in Vertices,
        t1 \in Vertices, t2 \in Vertices, t3 \in Vertices :
       /\ fcall' = [fn |-> "FEMBasisABasisB", xi |-> x, a |-> a, b |-> b,
                    t |-> <<t1, t2, t3>>, basis_choice |-> basis_choice]
       /\ fresult' = FEMBasisABasisB(a, b, t1, t2, t3, x[1], x[2], x[3], basis_choice)
  /\ FnUnchanged

\* a call of SYMM2_Ind for two tensor indices, as metric_partial makes them
CallSYMM2_Ind ==
  /\ fcall.fn = "none"
  /\ \E v1 \in 0 .. 2, v2 \in 0 .. 2 :
       /\ fcall' = [fn |-> "SYMM2_Ind", v1 |-> v1, v2 |-> v2]
       /\ fresult' = Gives(SYMM2_Ind(v1, v2))
  /\ FnUnchanged

FnInit ==
  /\ InitWith(PerRank(<<1>>), {"hydro"}, CHOOSE x \in Runs : x.op.file_number = 0)
  /\ PgenIdle /\ TriIdle /\ WaveIdle /\ HistIdle /\ BcIdle
  /\ FnIdle

FnNext ==
  \/ CallFEMBasis
  \/ CallFEMBasisA
  \/ CallFEMBasisABasisB
  \/ CallSYMM2_Ind

FnSpec == FnInit /\ [][FnNext]_vars

\* ====================================================== TorusHistory (gr_torus)
\* the size of the history arrays; its definition is not part of the sources here
NHISTORY_VARIABLES == 12
MaxRadii == 4

\* int nflux = (is_mhd) ? 4 : 3
nflux == IF is_mhd THEN 4 ELSE 3

\* pdata->label[n] = l and pdata->hdata[n] = v for n in `slots`
SetLabels(slots, l) ==
  [pdata EXCEPT !.label = [k \in 1 .. NHISTORY_VARIABLES |->
                             IF k - 1 \in slots THEN l ELSE pdata.label[k]]]
SetData(slots, v) ==
  [pdata EXCEPT !.hdata = [k \in 1 .. NHISTORY_VARIABLES |->
                             IF k - 1 \in slots THEN v ELSE pdata.hdata[k]]]

\* an index outside the arrays
OutOfRange(slots) == \E n \in slots : n < 0 \/ n >= NHISTORY_VARIABLES

HistUnchanged == UNCHANGED <<restart_vars, pgen_vars, tri_vars, wave_vars, fn_vars, bc_vars>>

\* is_mhd, nflux, pdata->nhist = nradii*nflux + 3 and the test against
\* NHISTORY_VARIABLES
SetNhist ==
  /\ hpc = "start"
  /\ is_mhd' = (~hmods.phydro /\ hmods.pmhd)
  /\ LET nf == IF is_mhd' THEN 4 ELSE 3
     IN  /\ pdata' = [pdata EXCEPT !.nhist = nradii * nf + 3]
         /\ hpc' = IF nradii * nf + 3 > NHISTORY_VARIABLES THEN "exited" ELSE "labels"
  /\ hg' = 0
  /\ UNCHANGED <<hmods, nradii, hn, hoob>>
  /\ HistUnchanged

\* the loop that names the fluxes of each radius, then the three names of the
\* magnetic energies (iff MHD)
LabelStep ==
  /\ hpc = "labels"
  /\ IF hg < nradii
       THEN LET slots == {nflux * hg + 0, nflux * hg + 1, nflux * hg + 2}
                           \cup (IF is_mhd THEN {nflux * hg + 3} ELSE {})
            IN  /\ pdata' = SetLabels(slots, "flux")
                /\ hoob' = (hoob \/ OutOfRange(slots))
                /\ hg' = hg + 1
                /\ hpc' = hpc
       ELSE LET slots == IF is_mhd
                           THEN {nflux * (nradii - 1) + 4, nflux * (nradii - 1) + 5,
                                 nflux * (nradii - 1) + 6}
                           ELSE {}
            IN  /\ pdata' = SetLabels(slots, "ME")
                /\ hoob' = (hoob \/ OutOfRange(slots))
                /\ hg' = 0
                /\ hpc' = "fluxes"
  /\ UNCHANGED <<hmods, nradii, is_mhd, hn>>
  /\ HistUnchanged

\* "go through angles at each radii": the fluxes of one radius zeroed and summed
FluxStep ==
  /\ hpc = "fluxes"
  /\ IF hg < nradii
       THEN LET slots == {nflux * hg + 0, nflux * hg + 1, nflux * hg + 2}
                           \cup (IF is_mhd THEN {nflux * hg + 3} ELSE {})
            IN  /\ pdata' = SetData(slots, "flux")
                /\ hoob' = (hoob \/ OutOfRange(slots))
                /\ hg' = hg + 1
                /\ UNCHANGED <<hpc, hn>>
       ELSE /\ hpc' = "store"
            /\ hn' = nflux * (nradii - 1) + 4
            /\ UNCHANGED <<pdata, hoob, hg>>
  /\ UNCHANGED <<hmods, nradii, is_mhd>>
  /\ HistUnchanged

\* "store data into hdata array": for (n = nflux*(nradii-1)+4; n < nhist; ++n)
StoreStep ==
  /\ hpc = "store"
  /\ IF hn < pdata.nhist
       THEN /\ pdata' = SetData({hn}, "sum")
            /\ hoob' = (hoob \/ OutOfRange({hn}))
            /\ hn' = hn + 1
            /\ hpc' = hpc
       ELSE /\ hpc' = "fill"
            /\ hn' = pdata.nhist
            /\ UNCHANGED <<pdata, hoob>>
  /\ UNCHANGED <<hmods, nradii, is_mhd, hg>>
  /\ HistUnchanged

\* "fill rest of the_array with zeros": for (n = nhist; n < NHISTORY_VARIABLES; ++n)
FillStep ==
  /\ hpc = "fill"
  /\ IF hn < NHISTORY_VARIABLES
       THEN /\ pdata' = SetData({hn}, "zero")
            /\ hoob' = (hoob \/ OutOfRange({hn}))
            /\ hn' = hn + 1
            /\ hpc' = hpc
       ELSE /\ hpc' = "returned"
            /\ UNCHANGED <<pdata, hoob, hn>>
  /\ UNCHANGED <<hmods, nradii, is_mhd, hg>>
  /\ HistUnchanged

\* a call of TorusHistory: hydro, MHD or both modules, 1 to MaxRadii spherical
\* grids, history arrays holding what an earlier call or nothing left in them
HistInit ==
  /\ InitWith(PerRank(<<1>>), {"hydro"}, CHOOSE x \in Runs : x.op.file_number = 0)
  /\ PgenIdle /\ TriIdle /\ WaveIdle /\ FnIdle /\ BcIdle
  /\ hpc = "start"
  /\ hmods \in {p \in [phydro : BOOLEAN, pmhd : BOOLEAN] : p.phydro \/ p.pmhd}
  /\ nradii \in 1 .. MaxRadii
  /\ is_mhd = FALSE
  /\ \E l \in {"", "old"} :
       pdata = [nhist |-> 0,
                label |-> [k \in 1 .. NHISTORY_VARIABLES |-> l],
                hdata |-> [k \in 1 .. NHISTORY_VARIABLES |-> "stale"]]
  /\ hg = 0 /\ hn = 0 /\ hoob = FALSE

HistNext ==
  \/ SetNhist
  \/ LabelStep
  \/ FluxStep
  \/ StoreStep
  \/ FillStep

HistSpec == HistInit /\ [][HistNext]_vars

\* ===================================================== NoInflowTorus (gr_torus)
\* one MeshBlock of 2 x 2 x 2 active cells with one layer of ghost cells
bc_nx == 2
bc_ng == 1
bc_n == bc_nx + 2 * bc_ng
bc_s == bc_ng
bc_e == bc_ng + bc_nx - 1

\* primitive variables, and the velocity normal to the faces of each direction
PrimVars == {"IDN", "IVX", "IVY", "IVZ"}
NormalVar == <<"IVX", "IVY", "IVZ">>
\* cells <<i, j, k>>; direction d is 1, 2, 3
BcCells == (0 .. bc_n - 1) \X (0 .. bc_n - 1) \X (0 .. bc_n - 1)
BoundaryFace == {<<d, side>> : d \in 1 .. 3, side \in {"inner", "outer"}}

IsActive(c) == \A d \in 1 .. 3 : c[d] >= bc_s /\ c[d] <= bc_e

\* the ghost cells of a face: all cells whose index along d is below is (inner) or
\* above ie (outer)
GhostCells(f) ==
  {c \in BcCells : IF f[2] = "inner" THEN c[f[1]] < bc_s ELSE c[f[1]] > bc_e}
\* the cell at is (inner) or ie (outer) in the same row along d
FirstActive(f, c) == [c EXCEPT ![f[1]] = IF f[2] = "inner" THEN bc_s ELSE bc_e]
\* the cells with index lo..hi along direction d
Slab(d, lo, hi) == {c \in BcCells : c[d] >= lo /\ c[d] <= hi}

\* the value of variable n in cell c: every cell and variable has its own
\* magnitude, neighbouring cells have opposite signs, p shifts the signs
VarIndex(n) == CHOOSE x \in 0 .. 3 : <<"IDN", "IVX", "IVY", "IVZ">>[x + 1] = n
CellValue(n, c, p) ==
  LET id == 1 + c[1] + bc_n * c[2] + bc_n * bc_n * c[3]
                + bc_n * bc_n * bc_n * VarIndex(n)
  IN  IF (c[1] + c[2] + c[3] + VarIndex(n) + p) % 2 = 0 THEN id ELSE 0 - id
\* what the ghost cells hold before the first call
StaleOffset == 1000

\* variant: the normal velocity copied like every other variable
GhostValue_Copied(f, n, v) == v

\* fmin(0.0, v) on inner and fmax(0.0, v) on outer faces for the velocity along
\* the direction of the face, v for every other variable
GhostValue(f, n, v) ==
  IF n = NormalVar[f[1]]
    THEN (IF f[2] = "inner" THEN Min(0, v) ELSE Max(0, v))
    ELSE v

\* peos->ConsToPrim and peos->PrimToCons over a range of cells; the conserved state of
\* a cell is kept as the primitives it corresponds to
GhostConsToPrim(cells) ==
  [n \in PrimVars |-> [c \in BcCells |-> IF c \in cells THEN u0[c][n] ELSE w0[n][c]]]
GhostPrimToCons(w, cells) ==
  [c \in BcCells |-> IF c \in cells THEN [n \in PrimVars |-> w[n][c]] ELSE u0[c]]

\* the kernel "noinflow_hydro_x<d>" applied to w: the ghost cells of the inner and
\* then of the outer face, if the face is flagged user
SetFace(w, f) ==
  IF mb_bcs[f] = "user"
    THEN [n \in PrimVars |->
            [c \in BcCells |->
               IF c \in GhostCells(f) THEN GhostValue(f, n, w[n][FirstActive(f, c)])
               ELSE w[n][c]]]
    ELSE w
SetDirection(w, d) == SetFace(SetFace(w, <<d, "inner">>), <<d, "outer">>)

\* the cells the kernel of direction d writes
Written(d) ==
  UNION {IF mb_bcs[f] = "user" THEN GhostCells(f) ELSE {} :
           f \in {<<d, "inner">>, <<d, "outer">>}}

MaxBcCalls == 2

BcUnchanged ==
  UNCHANGED <<restart_vars, pgen_vars, tri_vars, wave_vars, fn_vars, hist_vars>>

\* the boundary of direction bdir: ConsToPrim over the ghost zones and the
\* innermost and outermost active zones, the copies into the ghost zones of the
\* faces flagged user, PrimToCons on the ghost zones
BoundaryPass ==
  /\ bpc = "pass" /\ bdir <= 3
  /\ LET prim == GhostConsToPrim(Slab(bdir, bc_s - bc_ng, bc_s)
                            \cup Slab(bdir, bc_e, bc_e + bc_ng))
         set == SetDirection(prim, bdir)
     IN  /\ w0' = set
         /\ u0' = GhostPrimToCons(w0', Slab(bdir, bc_s - bc_ng, bc_s - 1)
                                  \cup Slab(bdir, bc_e + 1, bc_e + bc_ng))
  /\ copied' = copied \cup Written(bdir)
  /\ bdir' = bdir + 1
  /\ UNCHANGED <<mb_bcs, bpc, bcalls>>
  /\ BcUnchanged

\* return after the x3 boundary
NoInflowReturn ==
  /\ bpc = "pass" /\ bdir > 3
  /\ bpc' = "returned"
  /\ UNCHANGED <<w0, u0, mb_bcs, bdir, copied, bcalls>>
  /\ BcUnchanged

\* the time step changes the active cells, the exchange with the neighbours the
\* ghost cells of faces that are not user boundaries, before the next call
NextCall ==
  /\ bpc = "returned" /\ bcalls < MaxBcCalls
  /\ \E p \in 0 .. 1 :
       /\ w0' = [n \in PrimVars |-> [c \in BcCells |->
                   IF IsActive(c) THEN CellValue(n, c, p) ELSE w0[n][c]]]
       /\ u0' = [c \in BcCells |->
                   IF IsActive(c) THEN [n \in PrimVars |-> CellValue(n, c, p)]
                   ELSE u0[c]]
  /\ bpc' = "pass" /\ bdir' = 1 /\ copied' = {}
  /\ bcalls' = bcalls + 1
  /\ UNCHANGED mb_bcs
  /\ BcUnchanged

BcInit ==
  /\ mb_bcs \in [BoundaryFace -> {"user", "block"}]
  /\ \E p \in 0 .. 1 :
       /\ w0 = [n \in PrimVars |-> [c \in BcCells |->
                  IF IsActive(c) THEN CellValue(n, c, p)
                  ELSE StaleOffset + CellValue(n, c, p)]]
       /\ u0 = [c \in BcCells |-> [n \in PrimVars |->
                  IF IsActive(c) THEN CellValue(n, c, p)
                  ELSE 2 * StaleOffset - CellValue(n, c, p)]]
  /\ bpc = "pass" /\ bdir = 1 /\ copied = {} /\ bcalls = 1
  /\ InitWith(PerRank(<<1>>), {"hydro"}, CHOOSE x \in Runs : x.op.file_number = 0)
  /\ PgenIdle /\ TriIdle /\ WaveIdle /\ FnIdle /\ HistIdle

BcNext == BoundaryPass \/ NoInflowReturn \/ NextCall

BcSpec == BcInit /\ [][BcNext]_vars

\* ================================================================ properties
\* the write records of a rank, and those of MeshBlock data
Recs(r) == {wlog[r][i] : i \in 1 .. Len(wlog[r])}
Payload(r) == {w \in Recs(r) : w.blk >= 0}

\* bytes rank 0 writes before the payload when no write is short: the sizes of
\* the sections it writes, added up
HeaderBytes(r) ==
  LET h == HeaderSections(r)
      sizes == [i \in 1 .. Len(h) |-> h[i].size]
  IN  SumSeq(sizes)

\* bytes of one MeshBlock in the arrays of loop lp (0 when its module is absent)
LoopBytes(lp) ==
  IF LoopModule[lp] \notin active THEN 0
  ELSE LET a == LoopArrays[lp]
       IN  SumSeq([i \in 1 .. Len(a) |-> SubviewSize(a[i]) * sizeofReal])

\* bytes of one MeshBlock over all arrays
BlockBytes == SumSeq([lp \in 1 .. NLoops |-> LoopBytes(lp)])

LoopOf(arr) == CHOOSE lp \in 1 .. NLoops : \E i \in 1 .. Len(LoopArrays[lp]) : LoopArrays[lp][i] = arr
IndexIn(arr) == CHOOSE i \in 1 .. Len(LoopArrays[LoopOf(arr)]) : LoopArrays[LoopOf(arr)][i] = arr

\* bytes of one MeshBlock in the loops before lp, and in the arrays of the same
\* loop before arr
BytesBeforeLoop(lp) == SumSeq([l \in 1 .. lp - 1 |-> LoopBytes(l)])
BytesBeforeArray(arr) ==
  SumSeq([i \in 1 .. IndexIn(arr) - 1 |-> SubviewSize(LoopArrays[LoopOf(arr)][i]) * sizeofReal])

\* the array each MeshBlock's data begins with
FirstArray == LoopArrays[CHOOSE lp \in ActiveLoops : \A l \in ActiveLoops : lp <= l][1]

\* first byte of the payload region of rank r
RegionStart(r) == HeaderBytes(r) + BlockBytes * gids_eachrank(r)

\* the rank has computed data_size and myoffset for the file it is writing
PastOffsets(r) == pc[r] \in {"payload", "coll", "closing", "closed", "exited"}

\* where the code puts array w.sec of MeshBlock w.blk of rank r: the region of the
\* rank starts at header bytes + data_size * gids_eachrank[r]; inside it the arrays
\* are grouped by loop, not by MeshBlock
LayoutOffset(r, w) ==
  RegionStart(r) + nmb_thisrank(r) * BytesBeforeLoop(LoopOf(w.sec))
  + w.blk * LoopBytes(LoopOf(w.sec)) + BytesBeforeArray(w.sec)

\* ------------------------------------------------------------------- C1
\* C1: on every rank the data of local MeshBlock m starts at header bytes +
\* data_size * (gids_eachrank[r] + m), for every set of active modules, so the
\* MeshBlocks in ascending global index are exactly data_size apart.
C1_BlockAtGlobalIndex ==
  \A r \in Ranks : \A w \in Payload(r) :
    w.sec = FirstArray => w.off = HeaderBytes(r) + data_size[r] * (gids_eachrank(r) + w.blk)

\* ------------------------------------------------------------------- C2
Disjoint(w1, w2) == w1.off + w1.req <= w2.off \/ w2.off + w2.req <= w1.off

\* C2: no byte of the file is written by two different ranks, and no payload
\* write, collective or not, covers a byte below the end of what rank 0 writes
\* before the payload (header, tables, data_size, RNG state).
C2_NoOverlap ==
  /\ \A r1 \in Ranks : \A r2 \in Ranks \ {r1} :
       \A w1 \in Recs(r1) : \A w2 \in Recs(r2) : Disjoint(w1, w2)
  /\ \A r \in Ranks : \A w \in Payload(r) : w.off >= HeaderBytes(r)
  /\ \A w \in Recs(0) : w.blk < 0 => w.off + w.req <= HeaderBytes(0)

\* all ranks have written all their MeshBlocks, collectively and independently,
\* next to the complete header of rank 0, with a magnetic field and three ranks
C2_Witness ==
  /\ nranks = 3 /\ "mhd" \in active /\ nshort = 0
  /\ \A r \in Ranks : pc[r] = "closing"
  /\ \E w \in Payload(1) : ~w.coll

\* ------------------------------------------------------------------- C3
\* the collective writes a rank has entered: array, MeshBlock, bytes
IsColl(w) == w.coll
CollCalls(r) ==
  LET c == SelectSeq(wlog[r], IsColl)
  IN  [i \in 1 .. Len(c) |-> <<c[i].sec, c[i].blk, c[i].req>>]

\* the k-th collective call is the same call on every rank that has made it, and
\* ranks that are through their loops on the same file have made the same calls
SameCollectives ==
  \A r1 \in Ranks : \A r2 \in Ranks :
    /\ \A i \in 1 .. Min(Len(CollCalls(r1)), Len(CollCalls(r2))) :
         CollCalls(r1)[i] = CollCalls(r2)[i]
    /\ (ndump[r1] = ndump[r2] /\ pc[r1] \in {"closing", "closed"}
          /\ pc[r2] \in {"closing", "closed"}) => CollCalls(r1) = CollCalls(r2)

\* every rank has returned from resfile.Close() of the last dump of the run
AllClosed == \A r \in Ranks : pc[r] = "closed" /\ ndump[r] = MaxDumps

\* C3: whatever the block counts, all ranks issue the same sequence of collective
\* writes (same number, same arrays, same order), and when no write is short
\* every rank gets through every collective write and closes every file.
C3_CollectivesMatch ==
  /\ []SameCollectives
  /\ <>(AllClosed \/ nshort > 0)

\* three ranks with unequal counts have closed the file after collective writes,
\* no write having been short
C3_Witness ==
  /\ nmb_eachrank = PerRank(<<1, 2, 1>>) /\ nshort = 0
  /\ \A r \in Ranks : pc[r] = "closed" /\ Len(CollCalls(r)) > 0

\* ------------------------------------------------------------------- C4
\* the smallest number of MeshBlocks on a rank
MinBlocks == CHOOSE n \in {nmb_eachrank[r] : r \in Ranks} : \A q \in Ranks : n <= nmb_eachrank[q]

\* the MeshBlocks of array a that rank r has written collectively (c = TRUE) or
\* independently (c = FALSE), in the order of the calls
BlocksOf(r, a, c) ==
  LET Is(w) == w.sec = a /\ w.coll = c
      q == SelectSeq(wlog[r], Is)
  IN  [i \in 1 .. Len(q) |-> q[i].blk]

\* C4: for each active array a rank with n MeshBlocks issues exactly noutmbs_min
\* collective writes (blocks 0 .. noutmbs_min-1) and then exactly n - noutmbs_min
\* independent writes (blocks noutmbs_min .. n-1); for the counts 3,3,5 that is 3
\* collective then 2 independent writes on the last rank and none on the others;
\* and no two payload writes cover a common byte.
C4_PhaseSplit ==
  /\ \A r \in Ranks : \A i \in 1 .. Len(wlog[r]) : \A j \in 1 .. Len(wlog[r]) :
       (i < j /\ wlog[r][i].sec = wlog[r][j].sec) =>
          /\ wlog[r][i].blk < wlog[r][j].blk
          /\ wlog[r][j].coll => wlog[r][i].coll
  /\ \A r \in Ranks : pc[r] \in {"closing", "closed"} =>
       \A a \in ActiveArrays :
         /\ BlocksOf(r, a, TRUE) = [i \in 1 .. MinBlocks |-> i - 1]
         /\ BlocksOf(r, a, FALSE) = [i \in 1 .. nmb_thisrank(r) - MinBlocks |-> MinBlocks + i - 1]
  /\ \A r1 \in Ranks : \A r2 \in Ranks :
       \A i \in 1 .. Len(wlog[r1]) : \A j \in 1 .. Len(wlog[r2]) :
         (<<r1, i>> # <<r2, j>> /\ wlog[r1][i].blk >= 0 /\ wlog[r2][j].blk >= 0)
            => Disjoint(wlog[r1][i], wlog[r2][j])

\* the run with 3, 3 and 5 MeshBlocks is through its writes: the last rank has
\* written 3 blocks collectively and then 2 independently
C4_Witness ==
  /\ nmb_eachrank = ExampleCounts
  /\ \A r \in Ranks : pc[r] = "closing"
  /\ BlocksOf(2, "hyd", TRUE) = <<0, 1, 2>> /\ BlocksOf(2, "hyd", FALSE) = <<3, 4>>
  /\ BlocksOf(0, "hyd", FALSE) = <<>> /\ BlocksOf(1, "hyd", FALSE) = <<>>

\* ------------------------------------------------------------------- C5
\* the write call of record i of rank r has returned
Returned(r, i) == ~(pc[r] = "coll" /\ i = Len(wlog[r]))

\* C5: a short write in any section (parameter text, mesh scalars, tables,
\* data_size, RNG state, every payload array) ends the run at once with a message
\* for the section.
C5_ShortWriteIsFatal ==
  \A r \in Ranks : \A i \in 1 .. Len(wlog[r]) :
    (wlog[r][i].wrote < wlog[r][i].req /\ Returned(r, i)) =>
       (pc[r] = "exited" /\ msg[r] # "")

\* ------------------------------------------------------------------- C6
\* sections of the header records of rank r, in the order written
HeaderWritten(r) ==
  LET IsHdr(w) == w.blk < 0
      q == SelectSeq(wlog[r], IsHdr)
  IN  [i \in 1 .. Len(q) |-> q[i].sec]

\* bytes of the payload writes of rank r that have added to myoffset
DoneBytes(r) ==
  LET Done(w) == w.blk >= 0 /\ w.wrote = w.req
      q == SelectSeq(IF pc[r] = "coll" THEN SubSeq(wlog[r], 1, Len(wlog[r]) - 1) ELSE wlog[r], Done)
  IN  SumSeq([i \in 1 .. Len(q) |-> q[i].req])

\* what myoffset was before the first payload write, less the blocks of lower ranks
BaseOf(r) == myoffset[r] - DoneBytes(r) - data_size[r] * gids_eachrank(r)

\* C6: only rank 0 writes the parameter text, mesh scalars, the two tables,
\* data_size and the RNG state; other ranks write nothing below the payload base;
\* the RNG state is written, and counted in the base, exactly when forcing is active.
C6_OnlyRankZeroHeader ==
  /\ \A r \in Ranks \ {0} : \A w \in Recs(r) :
       w.blk >= 0 /\ w.sec \notin HeaderSecs /\ w.off >= HeaderBytes(r)
  /\ PastOffsets(0) =>
       HeaderWritten(0) = <<"params", "mesh", "lloc_eachmb", "cost_eachmb", "data_size">>
                          \o (IF "turb" \in active THEN <<"rstate">> ELSE <<>>)
  /\ \A w \in Recs(0) : w.sec = "rstate" => "turb" \in active
  /\ \A r \in Ranks : PastOffsets(r) =>
       BaseOf(r) = sizeofChar * sbuf[r].size + SumSeq(MeshScalars)
                   + nmb_total * (sizeofLogicalLocation + sizeofFloat) + sizeofIOWrapperSizeT
                   + (IF "turb" \in active THEN sizeofRNG_State ELSE 0)

\* with forcing active rank 0 has written the RNG state and another rank has
\* written MeshBlock data
C6_Witness ==
  /\ "turb" \in active
  /\ \E w \in Recs(0) : w.sec = "rstate"
  /\ \E r \in Ranks \ {0} : Payload(r) # {}

\* ------------------------------------------------------------------- C7
\* rank 0 has issued every header write of the file rank r is writing
HeaderDone(r) == ndump[0] > ndump[r] \/ (ndump[0] = ndump[r] /\ PastOffsets(0))

\* C7: in every interleaving rank 0 has completed all its header, table, scalar
\* and RNG-state writes before any other rank issues its first payload write.
C7_HeaderBeforeAnyPayload ==
  \A r \in Ranks \ {0} : Payload(r) # {} => HeaderDone(r)

\* C7 amended: rank 0 has completed all its header, table, scalar and RNG-state
\* writes before rank 0 itself issues its first payload write; the other ranks are
\* not ordered against them and may issue payload writes earlier.
C7_OwnHeaderFirst ==
  /\ \A i \in 1 .. Len(wlog[0]) : \A j \in 1 .. Len(wlog[0]) :
       (wlog[0][i].blk >= 0 /\ wlog[0][j].blk < 0) => j < i
  /\ Payload(0) # {} =>
       HeaderWritten(0) = [i \in 1 .. Len(HeaderSections(0)) |-> HeaderSections(0)[i].sec]

\* rank 0 has written MeshBlock data after its header, and so has another rank
C7_Witness ==
  /\ Payload(0) # {}
  /\ \E r \in Ranks \ {0} : Payload(r) # {}

\* ------------------------------------------------------------------- C8
\* the number part and the whole of the name of the file with sequence number n
NameOf(n) == <<"rst/", file_basename, ".">> \o Snprintf05d(n) \o <<".rst">>

\* rank r enters WriteOutputFile in this step / issues a write call in this step
Begins(r) == pc[r] = "loaded" /\ pc'[r] = "opening"
Writes(r) == Len(wlog'[r]) > Len(wlog[r])

\* C8: the file number and last_time are advanced and stored in the parameter
\* input before the parameter text is serialized and before any byte is written:
\* the file named with number n records file_number = n+1 and the advanced
\* last_time (pm->time if last_time was negative, else last_time + dt).
C8_CountersBeforeDump ==
  [][\A r \in Ranks :
       /\ Begins(r) =>
            /\ fname'[r] = NameOf(out_params[r].file_number)
            /\ sbuf'[r].file_number = out_params[r].file_number + 1
            /\ sbuf'[r].last_time = IF out_params[r].last_time < 0 THEN time[r]
                                    ELSE out_params[r].last_time + out_params[r].dt
            /\ pin'[r].file_number = sbuf'[r].file_number
            /\ pin'[r].last_time = sbuf'[r].last_time
            /\ wlog'[r] = <<>>
       /\ Writes(r) =>
            /\ fname[r] = NameOf(sbuf[r].file_number - 1)
            /\ sbuf[r].file_number = out_params[r].file_number
            /\ sbuf[r].last_time = out_params[r].last_time
            /\ sbuf[r].last_time >= 0
            /\ wlog'[r][Len(wlog'[r])].sec = "params" =>
                 (wlog[r] = <<>> /\ wlog'[r][1].text = sbuf[r])
  ]_vars

\* rank 0 has written the parameter text of the second dump of a new run: the
\* first dump took pm->time, the second added dt
C8_Witness ==
  /\ ndump[0] = 2
  /\ \E w \in Recs(0) : w.sec = "params" /\ w.text.file_number = 2 /\ w.text.last_time = 7

\* ------------------------------------------------------------------- C9
\* C9: each call of WriteOutputFile raises out_params.file_number by exactly 1 and
\* stores the same value in the parameter input, and the file written is
\* rst/<basename>.<number zero-padded to 5 digits>.rst for the number before
\* (no write of the run having been short).
C9_NumberedFiles ==
  [][\A r \in Ranks :
       (Begins(r) /\ nshort = 0) =>
         /\ out_params'[r].file_number = out_params[r].file_number + 1
         /\ pin'[r].file_number = out_params'[r].file_number
         /\ fname'[r] = <<"rst/", file_basename, ".">>
                        \o Format05d(out_params[r].file_number) \o <<".rst">>
  ]_vars

AllWritten ==
  /\ nshort = 0
  /\ \A r \in Ranks : pc[r] \in {"closing", "closed"} /\ ndump[r] = ndump[0]

\* bytes rank 0 has written before the payload
BaseWritten ==
  LET IsHdr(w) == w.blk < 0
  IN  SumWrote(SelectSeq(wlog[0], IsHdr))

\* bytes of the payload writes of rank r
PayloadBytes(r) ==
  LET IsData(w) == w.blk >= 0
      q == SelectSeq(wlog[r], IsData)
  IN  SumSeq([i \in 1 .. Len(q) |-> q[i].wrote])

\* the interval of the file the claim gives to rank r
IntervalLo(r) == BaseWritten + data_size[r] * gids_eachrank(r)
IntervalHi(r) == BaseWritten + data_size[r] * (gids_eachrank(r) + nmb_thisrank(r))

\* C11: when all ranks have finished WriteOutputFile without error, the bytes
\* written by rank r are exactly [base + data_size*gids_eachrank[r], base +
\* data_size*(gids_eachrank[r] + nmb_thisrank)), each written once; the intervals
\* of successive ranks are adjacent and their union is [base, base +
\* data_size*nmb_total), base being the bytes rank 0 wrote before the payload.
C11_ContiguousRegions ==
  AllWritten =>
    /\ \A r \in Ranks :
         /\ \A w \in Payload(r) : IntervalLo(r) <= w.off /\ w.off + w.req <= IntervalHi(r)
         /\ \A i \in 1 .. Len(wlog[r]) : \A j \in 1 .. Len(wlog[r]) :
              i # j => Disjoint(wlog[r][i], wlog[r][j])
         /\ PayloadBytes(r) = IntervalHi(r) - IntervalLo(r)
    /\ IntervalLo(0) = BaseWritten
    /\ \A r \in Ranks : r + 1 \in Ranks => IntervalHi(r) = IntervalLo(r + 1)
    /\ \A r \in Ranks : r + 1 \notin Ranks =>
         IntervalHi(r) = BaseWritten + data_size[r] * nmb_total

\* three ranks with unequal numbers of MeshBlocks have finished a file holding a
\* magnetic field
C11_Witness ==
  /\ AllWritten /\ nranks = 3 /\ "mhd" \in active
  /\ \E r \in Ranks : nmb_thisrank(r) > 1 /\ PayloadBytes(r) = data_size[r] * nmb_thisrank(r)

\* ------------------------------------------------------------------ C12
\* place of an array in the fixed order, and of the loop that writes it
ArrayRank(a) ==
  CASE a = "hyd" -> 1 [] a = "mhd" -> 2 [] a = "x1f" -> 3 [] a = "x2f" -> 4
    [] a = "x3f" -> 5 [] a = "rad" -> 6 [] a = "force" -> 7
ModuleRank(a) ==
  CASE a = "hyd" -> 1 [] a = "mhd" -> 2 [] a \in {"x1f", "x2f", "x3f"} -> 3
    [] a = "rad" -> 4 [] a = "force" -> 5

\* C12: within the bytes of one rank the arrays lie in the order hydro, MHD
\* cell-centered, face fields x1, x2, x3, radiation, forcing, each of them as one
\* array per MeshBlock in ascending block index.
C12_ArraysInSeparateRuns ==
  \A r \in Ranks : \A w1 \in Payload(r) : \A w2 \in Payload(r) :
    (ArrayRank(w1.sec) < ArrayRank(w2.sec)
       \/ (w1.sec = w2.sec /\ w1.blk < w2.blk)) => w1.off + w1.req <= w2.off

\* w1 lies before w2 in the file: an earlier module; in the same module an earlier
\* MeshBlock; for the face fields of the same MeshBlock x1f, x2f, x3f
LiesBefore(w1, w2) ==
  \/ ModuleRank(w1.sec) < ModuleRank(w2.sec)
  \/ ModuleRank(w1.sec) = ModuleRank(w2.sec) /\ w1.blk < w2.blk
  \/ ModuleRank(w1.sec) = ModuleRank(w2.sec) /\ w1.blk = w2.blk
       /\ ArrayRank(w1.sec) < ArrayRank(w2.sec)

\* C12 amended: within the bytes of one rank the modules lie in the order hydro,
\* MHD cell-centered, MHD face fields, radiation, forcing, each with its MeshBlocks
\* in ascending block index; hydro, MHD cell-centered, radiation and forcing hold one
\* array per MeshBlock, the face fields hold three per MeshBlock, x1f, x2f, x3f of
\* MeshBlock m followed by x1f, x2f, x3f of MeshBlock m+1; only arrays of active
\* modules are written, each array of each MeshBlock once.
C12_ModuleThenBlockOrder ==
  \A r \in Ranks :
    /\ \A w \in Payload(r) : w.sec \in ActiveArrays /\ w.blk < nmb_thisrank(r)
    /\ \A i \in 1 .. Len(wlog[r]) : \A j \in 1 .. Len(wlog[r]) :
         LET w1 == wlog[r][i]
             w2 == wlog[r][j]
         IN  (w1.blk >= 0 /\ w2.blk >= 0) =>
               /\ LiesBefore(w1, w2) => (i < j /\ w1.off + w1.req <= w2.off)
               /\ (w1.sec = w2.sec /\ w1.blk = w2.blk) => i = j
    /\ (pc[r] \in {"closing", "closed"}) =>
         \A a \in ActiveArrays : \A m \in 0 .. nmb_thisrank(r) - 1 :
           \E w \in Payload(r) : w.sec = a /\ w.blk = m

\* a rank has finished a file with a magnetic field and two MeshBlocks of its own:
\* x3f of its first MeshBlock lies before x1f of its second
C12_Witness ==
  \E r \in Ranks :
    /\ pc[r] = "closing" /\ nshort = 0 /\ {"hydro", "mhd"} \subseteq active
    /\ \E w1 \in Payload(r) : \E w2 \in Payload(r) :
         w1.sec = "x3f" /\ w1.blk = 0 /\ w2.sec = "x1f" /\ w2.blk = 1 /\ w1.off < w2.off

\* ------------------------------------------------------------------ C13
\* rank r runs LoadOutputData in this step
Loads(r) == pc[r] = "start" /\ pc'[r] = "loaded"

\* C13: LoadOutputData copies the buffer of each module present into the writer's
\* own arrays and leaves the buffer as it was; the copies change at no other step,
\* whatever happens to the buffers; every payload write of WriteOutputFile carries
\* the content of the copy, that is the content the buffer had at LoadOutputData.
C13_WritesTheCopy ==
  [][\A r \in Ranks :
       /\ Loads(r) =>
            /\ live' = live
            /\ \A a \in ActiveArrays : outarray'[r][a] = live[r][a]
       /\ ~Loads(r) => outarray'[r] = outarray[r]
       /\ (Writes(r) /\ wlog'[r][Len(wlog'[r])].blk >= 0) =>
            /\ wlog'[r][Len(wlog'[r])].data = outarray[r][wlog'[r][Len(wlog'[r])].sec]
            /\ live' = live
  ]_vars

\* a rank has written an array whose buffer changed between LoadOutputData and the
\* write: the file holds the content of the copy, the buffer holds another
C13_Witness ==
  \E r \in Ranks : \E w \in Payload(r) :
    /\ w.data = outarray[r][w.sec]
    /\ w.data # live[r][w.sec]
    /\ pc[r] \in {"payload", "coll", "closing"}

\* ------------------------------------------------------------------ C14
OnePuncture == problem = "z4c_one_puncture"

\* the integrated H is at or below 1e-5 in absolute value
WithinTolerance == ~H_integrated.nan /\ -tolerance <= H_integrated.v /\ H_integrated.v <= tolerance

\* the two ways the loop ends
Converged == nupdate >= 1 /\ WithinTolerance
Exhausted == nupdate = maxit /\ ~WithinTolerance

\* C14: the horizon-finder loop always terminates, after at most maxit radius
\* updates, in exactly one of two outcomes: converged (integrated H within the
\* tolerance after some update) or iteration budget exhausted.
C14_TerminatesWithinBudget ==
  /\ [](OnePuncture =>
          /\ nupdate <= maxit
          /\ ppc \in {"delete", "returned"} => (Converged # Exhausted))
  /\ <>(OnePuncture => ppc \in {"returned", "exited"})

\* the loop has ended with the budget used up and the tolerance not met
C14_Witness == OnePuncture /\ ppc = "returned" /\ Exhausted /\ ~Converged

\* ------------------------------------------------------------------ C15
\* C15: the loop stops at the first iteration after whose update the integrated H
\* is within the tolerance, applies no radius update after that, and does not stop
\* before the budget is used up while the integrated H is above the tolerance.
C15_StopsAtFirstConvergence ==
  [][OnePuncture =>
       /\ (ppc = "test" /\ WithinTolerance) => ppc' = "delete"
       /\ (nupdate' # nupdate /\ nupdate >= 1) => ~WithinTolerance
       /\ ppc \in {"delete", "returned"} => nupdate' = nupdate
       /\ (ppc' = "delete" /\ ppc # "delete") => (WithinTolerance \/ nupdate = maxit)
  ]_vars

\* the loop has stopped after some, but not all, of its iterations with the
\* integrated H at minus the tolerance
C15_Witness ==
  /\ OnePuncture /\ ppc = "returned" /\ nupdate > 2 /\ nupdate < maxit
  /\ H_integrated.v = -tolerance

\* ------------------------------------------------------------------ C16
\* C16: when the budget is used up without the tolerance being met the process is
\* not terminated abnormally, a diagnostic reporting the non-convergence is printed
\* and the last radius function remains available to the caller.
C16_ExhaustionReported ==
  (OnePuncture /\ ppc = "returned" /\ Exhausted) =>
     /\ \E m \in cout : m \notin {"initialized", "Initial Norm of H", "Itr"}
     /\ S.alive

\* ------------------------------------------------------------------ C17
\* the mode number of the flattened index i
ModeOf(i) == CHOOSE l \in 0 .. nfilt : l * l <= i /\ i < (l + 1) * (l + 1)

C18_JacobianOfCurrentRadius ==
  [][OnePuncture =>
       /\ S'.pointwise_radius # S.pointwise_radius =>
            /\ ppc \in {"newgrid", "setradius", "delete"}
            /\ S'.surface_jacobian = S'.pointwise_radius
       /\ H' # H => (ppc \in {"H0", "evalH"} /\ S.alive
                     /\ S.surface_jacobian = S.pointwise_radius)
       /\ (ppc \in {"H0", "evalH"} /\ ppc' # ppc) =>
            (S.alive /\ S.surface_jacobian = S.pointwise_radius)
  ]_vars

\* H has been evaluated on a surface whose radius the loop has changed
C18_Witness ==
  /\ OnePuncture /\ ppc = "test" /\ nupdate >= 1
  /\ S.pointwise_radius # NewGaussLegendreGrid(radius).pointwise_radius
  /\ S.surface_jacobian = S.pointwise_radius

\* ------------------------------------------------------------------ C19
\* rows of `rows` equal to t
RowCount(rows, t) == Cardinality({k \in DOMAIN rows : rows[k] = t})

C20_PrerequisiteCheckedFirst ==
  /\ (OnePuncture /\ ~pmbp.pz4c /\ ppc # "start") =>
       /\ ppc = "exited" /\ "FATAL no z4c" \in cout
       /\ done = {} /\ ~S.alive /\ H = NoField /\ nupdate = 0
  /\ (problem = "gr_torus" /\ ~pmbp.is_general_relativistic /\ ppc # "start") =>
       /\ ppc = "exited" /\ "FATAL no GR" \in cout
       /\ user_bcs_func = "" /\ user_hist_func = "" /\ spherical_grids = 0
       /\ done = {}

\* the torus problem has exited for coordinates that are not general relativistic
C20_Witness ==
  /\ problem = "gr_torus" /\ ~pmbp.is_general_relativistic /\ ppc = "exited"
  /\ ~restart /\ pin_problem.fm_torus

\* ------------------------------------------------------------------ C22
\* the triangles of the list that have both a and b among their vertices, in the
\* order of the list
WithBoth(a, b) ==
  LET Has(t) == {a, b} \subseteq {t[1], t[2], t[3]}
  IN  SelectSeq(triangles, Has)

\* C22: for a # b, FindTriangles(a, b) stores exactly the triangles that contain
\* both a and b, each once and in ascending triangle index, and is_edge is true
\* exactly if one was stored; for a = b, is_edge is true exactly if a triangle
\* contains a.
C22_SharedEdgeTriangles ==
  (tpc = "ready" /\ ncalls >= 1) =>
    /\ va # vb =>
         /\ Len(WithBoth(va, vb)) <= Len(edge_triangles)
         /\ \A k \in DOMAIN edge_triangles :
              edge_triangles[k] = IF k <= Len(WithBoth(va, vb))
                                    THEN WithBoth(va, vb)[k] ELSE SentinelRow
         /\ is_edge = (Len(WithBoth(va, vb)) > 0)
    /\ va = vb =>
         is_edge = (\E k \in DOMAIN triangles :
                      va \in {triangles[k][1], triangles[k][2], triangles[k][3]})

\* a second call, for the edge (1, 0), has returned two triangles, the second of
\* which has b before a
C22_Witness ==
  /\ tpc = "ready" /\ ncalls = 2 /\ va = 1 /\ vb = 0 /\ is_edge
  /\ Len(edge_triangles) = 3
  /\ edge_triangles[2] = <<0, 3, 1>> /\ edge_triangles[3] = SentinelRow

\* ------------------------------------------------------------------ C29
\* file numbers of dumps a run may have written before
SampleFileNumbers == {0, 1, 9999, 10000, 10001, 99999, 100000}

\* C29: the file name is an injective function of the file number: the name built
\* for a dump differs from the name of every other file number.
C29_DistinctFileNames ==
  [][\A r \in Ranks :
       Begins(r) =>
         \A n \in SampleFileNumbers :
           n # out_params[r].file_number => BuildFname(n) # fname'[r]
  ]_vars

\* ------------------------------------------------------------------ C30
\* C30: the integrated H of the seed surface is never tested: the loop always
\* follows the first evaluation, and is left, or reports the residual achieved,
\* only after a radius update.
C30_InitialHNotTested ==
  [][OnePuncture =>
       /\ (ppc = "H0" /\ ppc' # ppc) => ppc' = "loop"
       /\ (ppc = "loop" /\ nupdate = 0) => ppc' \in {"loop", "setradius"}
       /\ (ppc' = "delete" /\ ppc # "delete") => nupdate >= 1
       /\ "target residual achieved" \in cout' => nupdate >= 1
  ]_vars

\* the seed surface has an integrated H within the tolerance, and the loop has
\* gone on to compute a new radius
C30_Witness ==
  /\ OnePuncture /\ ppc = "setradius" /\ nupdate = 0 /\ WithinTolerance
  /\ r_np1 # <<>>

\* ------------------------------------------------------------------ C21
\* C21: LinearWave_ ends in a fatal error whenever along_x3 is true on a mesh with
\* no extent in x3 (nx2gt1 true, nx3gt1 false), before any field or the time limit
\* is changed.
C21_AlongX3In2DIsFatal ==
  (/\ problem = "linear_wave" /\ ppc # "start" /\ set_initial_conditions
   /\ pin_problem.along_x3 /\ pmesh.nx2gt1 /\ ~pmesh.nx3gt1) =>
     /\ ppc = "exited"
     /\ phydro_regs = NoWave /\ pmhd_regs = NoWaveB

\* ------------------------------------------------------------------ C23
\* C23: called in error mode (set_initial_conditions false), LinearWave_ writes
\* the reference solution into the second register only and leaves u0, b0 and
\* tlim unchanged, in the hydro and in the MHD branch.
C23_ErrorModeWritesSecondRegister ==
  [][(problem = "linear_wave" /\ ~set_initial_conditions) =>
       /\ phydro_regs'.u0 = phydro_regs.u0
       /\ pmhd_regs'.u0 = pmhd_regs.u0 /\ pmhd_regs'.b0 = pmhd_regs.b0
       /\ tlim' = tlim
       /\ (ppc = "hydro" /\ pmbp.phydro) => phydro_regs'.u1 = "wave"
       /\ (ppc = "mhd" /\ pmbp.pmhd) =>
            (pmhd_regs'.u1 = "wave" /\ pmhd_regs'.b1 = "wave")
  ]_vars

\* ------------------------------------------------------------------ C24
\* the basis function of index i and type c at the point x
SelectedBasis(i, c, x) ==
  CASE <<i, c>> = <<1, 1>> -> FEMBasis1Type1(x[1], x[2], x[3])
    [] <<i, c>> = <<1, 2>> -> FEMBasis1Type2(x[1], x[2], x[3])
    [] <<i, c>> = <<1, 3>> -> FEMBasis1Type3(x[1], x[2], x[3])
    [] <<i, c>> = <<1, 4>> -> FEMBasis1Type4(x[1], x[2], x[3])
    [] <<i, c>> = <<2, 1>> -> FEMBasis2Type1(x[1], x[2], x[3])
    [] <<i, c>> = <<2, 2>> -> FEMBasis2Type2(x[1], x[2], x[3])
    [] <<i, c>> = <<2, 3>> -> FEMBasis2Type3(x[1], x[2], x[3])
    [] <<i, c>> = <<2, 4>> -> FEMBasis2Type4(x[1], x[2], x[3])
    [] <<i, c>> = <<3, 1>> -> FEMBasis3Type1(x[1], x[2], x[3])
    [] <<i, c>> = <<3, 2>> -> FEMBasis3Type2(x[1], x[2], x[3])
    [] <<i, c>> = <<3, 3>> -> FEMBasis3Type3(x[1], x[2], x[3])
    [] <<i, c>> = <<3, 4>> -> FEMBasis3Type4(x[1], x[2], x[3])

\* the vertices of the triangle t are distinct
Distinct(t) == t[1] # t[2] /\ t[1] # t[3] /\ t[2] # t[3]
\* the position of the vertex v in the triangle t
PositionOf(v, t) == CHOOSE k \in 1 .. 3 : t[k] = v

\* C24: FEMBasis returns the value of the basis function selected by
\* (basis_index, basis_choice) for basis_index in 1..3 and basis_choice in 1..4 and
\* ends the process for every other pair; FEMBasisA and FEMBasisABasisB end the
\* process when a (or b) is not a vertex of the triangle, and with distinct
\* vertices take the basis index 1, 2 or 3 of the vertex equal to a (to b).
C24_BasisSelection ==
  /\ fcall.fn = "FEMBasis" =>
       IF fcall.basis_index \in 1 .. 3 /\ fcall.basis_choice \in 1 .. 4
         THEN fresult = Gives(SelectedBasis(fcall.basis_index, fcall.basis_choice,
                                               fcall.xi))
         ELSE fresult.exited
  /\ fcall.fn = "FEMBasisA" =>
       /\ fcall.a \notin {fcall.t[1], fcall.t[2], fcall.t[3]} => fresult.exited
       /\ (Distinct(fcall.t) /\ fcall.a \in {fcall.t[1], fcall.t[2], fcall.t[3]}) =>
            fresult = Gives(SelectedBasis(PositionOf(fcall.a, fcall.t),
                                             fcall.basis_choice, fcall.xi))
  /\ fcall.fn = "FEMBasisABasisB" =>
       /\ ~({fcall.a, fcall.b} \subseteq {fcall.t[1], fcall.t[2], fcall.t[3]}) =>
            fresult.exited
       /\ (Distinct(fcall.t)
           /\ {fcall.a, fcall.b} \subseteq {fcall.t[1], fcall.t[2], fcall.t[3]}) =>
            fresult = Gives(
              SelectedBasis(PositionOf(fcall.a, fcall.t), fcall.basis_choice, fcall.xi)
              * SelectedBasis(PositionOf(fcall.b, fcall.t), fcall.basis_choice, fcall.xi))

\* FEMBasisA has ended the process for a vertex that is not one of the triangle's
C24_Witness ==
  /\ fcall.fn = "FEMBasisA" /\ fcall.a = 3 /\ fcall.t = <<0, 1, 2>>
  /\ fcall.basis_choice = 4 /\ fresult.exited

\* ------------------------------------------------------------------ C25
\* C25: for the non-overlapping honeycomb basis, at every barycentric point at most
\* one of FEMBasis1Type4, FEMBasis2Type4, FEMBasis3Type4 is not zero and exactly
\* one of them is 1.
C25_Type4Partition ==
  (fcall.fn = "FEMBasis" /\ fcall.basis_choice = 4 /\ fcall.basis_index \in 1 .. 3) =>
    LET x == fcall.xi
        vals == <<FEMBasis1Type4(x[1], x[2], x[3]), FEMBasis2Type4(x[1], x[2], x[3]),
                  FEMBasis3Type4(x[1], x[2], x[3])>>
    IN  /\ Cardinality({k \in 1 .. 3 : vals[k] # 0}) <= 1
        /\ Cardinality({k \in 1 .. 3 : vals[k] = XiUnit}) = 1

\* ------------------------------------------------------------------ C26
\* the packed index of the unordered pair {lo, hi}, lo <= hi
PackedIndex(lo, hi) ==
  CASE <<lo, hi>> = <<0, 0>> -> 0 [] <<lo, hi>> = <<0, 1>> -> 1
    [] <<lo, hi>> = <<0, 2>> -> 2 [] <<lo, hi>> = <<1, 1>> -> 3
    [] <<lo, hi>> = <<1, 2>> -> 4 [] <<lo, hi>> = <<2, 2>> -> 5

\* C26: SYMM2_Ind is symmetric, its result is in 0..5, and the six unordered pairs
\* (0,0), (0,1), (0,2), (1,1), (1,2), (2,2) map to 0..5 in that order.
C26_SymmetricPacking ==
  fcall.fn = "SYMM2_Ind" =>
    /\ fresult.value = SYMM2_Ind(fcall.v2, fcall.v1)
    /\ fresult.value \in 0 .. 5
    /\ fresult.value = PackedIndex(Min(fcall.v1, fcall.v2), Max(fcall.v1, fcall.v2))

\* SYMM2_Ind(2, 1) has given 4
C26_Witness == fcall = [fn |-> "SYMM2_Ind", v1 |-> 2, v2 |-> 1] /\ fresult.value = 4

\* ------------------------------------------------------------------ C27
\* C27: after every call of TorusHistory, for hydro and for MHD and any number of
\* spherical grids, every slot n < nhist = nradii*nflux + 3 has been assigned in
\* this call and has a label, every slot from nhist up to NHISTORY_VARIABLES is 0,
\* no slot outside the arrays is written, and nhist > NHISTORY_VARIABLES is fatal.
C27_HistorySlots ==
  /\ hpc = "returned" =>
       /\ pdata.nhist = nradii * nflux + 3
       /\ \A n \in 0 .. pdata.nhist - 1 :
            pdata.hdata[n + 1] \in {"flux", "sum"} /\ pdata.label[n + 1] \in {"flux", "ME"}
       /\ \A n \in pdata.nhist .. NHISTORY_VARIABLES - 1 : pdata.hdata[n + 1] = "zero"
  /\ ~hoob
  /\ (hpc \notin {"none", "start"} /\ pdata.nhist > NHISTORY_VARIABLES) => hpc = "exited"

\* the faces of the block flagged as user boundaries
UserFaces == {f \in BoundaryFace : mb_bcs[f] = "user"}

====
